---- MODULE Spec2Model ----
(***************************************************************************)
(* BudgetSnap: the receipt-text-to-transaction pipeline.                   *)
(*                                                                         *)
(*   UploadPage.handleUpload  --fetch-->  process_image (edge function)    *)
(*   process_image  --fetch-->  structure_with_gemini  --fetch-->  Gemini  *)
(*   process_image  --insert--> transactions table                         *)
(*                                                                         *)
(* A string is a sequence of one-character strings.  A JSON value is a     *)
(* record tagged by k: "null", "undefined" (a property that is absent),    *)
(* "str" (v: a string), "num" (v: the number in hundredths), "arr" (v: a   *)
(* sequence of JSON values).  An object is the record of its six fields.   *)
(***************************************************************************)
EXTENDS Integers, Sequences, FiniteSets, TLC

VARIABLES
    call,           \* the pure function under check: [fn, arg, ret, done]
    today,          \* new Date().toISOString().split('T')[0] at the server
    req,            \* the request process_image is serving
    pi,             \* process_image: [pc, user, ocrText, structuredData, path]
    sg,             \* structure_with_gemini: [pc, gemini, resp]
    piResp,         \* the Response process_image returned (NoResp before)
    transactions,   \* rows of the transactions table
    state,          \* UploadPage state: [uploading, processing, error, success]
    client          \* handleUpload: [pc, elapsed, result]

vars == <<call, today, req, pi, sg, piResp, transactions, state, client>>

-----------------------------------------------------------------------------
(* Bounds of the model.                                                    *)

\* Longest Gemini reply, in tokens, that the extractJson check enumerates.
MaxTextLen == 4
\* Characters beyond the 60 kept by validate in the over-long sub_category.
ExtraSubLen == 2
\* The client clock advances in steps of TickMs until the abort fires.
TickMs == 10000

(* Program constants.                                                      *)

\* rec.sub_category.toLowerCase().slice(0, 60)
SubCategoryMax == 60
\* AbortSignal.timeout(30000)
AbortTimeoutMs == 30000
\* setCountdown(5)
CountdownFrom == 5
\* setInterval(..., 1000)
IntervalMs == 1000
\* setTimeout(..., 5000)
CleanupMs == 5000

-----------------------------------------------------------------------------
(* Strings.                                                                *)

Digits == {"0", "1", "2", "3", "4", "5", "6", "7", "8", "9"}
UpperLetters == <<"A","B","C","D","E","F","G","H","I","J","K","L","M",
                  "N","O","P","Q","R","S","T","U","V","W","X","Y","Z">>
LowerLetters == <<"a","b","c","d","e","f","g","h","i","j","k","l","m",
                  "n","o","p","q","r","s","t","u","v","w","x","y","z">>

Min(a, b) == IF a <= b THEN a ELSE b

toLowerChar(c) ==
    IF \E i \in 1..26 : UpperLetters[i] = c
    THEN LowerLetters[CHOOSE i \in 1..26 : UpperLetters[i] = c]
    ELSE c

\* String.prototype.toLowerCase
toLowerCase(s) == [i \in 1..Len(s) |-> toLowerChar(s[i])]

\* String.prototype.slice(from, to) for 0 <= from <= to
slice(s, from, to) == SubSeq(s, from + 1, Min(to, Len(s)))

\* s repeated n times
RECURSIVE Repeat(_, _)
Repeat(s, n) == IF n = 0 THEN <<>> ELSE s \o Repeat(s, n - 1)

RECURSIVE Join(_, _)
\* Array.prototype.join over strings
Join(strs, sep) ==
    IF Len(strs) = 0 THEN <<>>
    ELSE IF Len(strs) = 1 THEN strs[1]
    ELSE strs[1] \o sep \o Join(Tail(strs), sep)

DigitChar(d) == CASE d = 0 -> "0" [] d = 1 -> "1" [] d = 2 -> "2" [] d = 3 -> "3"
                  [] d = 4 -> "4" [] d = 5 -> "5" [] d = 6 -> "6" [] d = 7 -> "7"
                  [] d = 8 -> "8" [] d = 9 -> "9"

RECURSIVE NatToString(_)
NatToString(n) ==
    IF n < 10 THEN <<DigitChar(n)>> ELSE NatToString(n \div 10) \o <<DigitChar(n % 10)>>

\* Number::toString of a number given in hundredths: 4567 is "45.67",
\* 4500 is "45", 4560 is "45.6", -100 is "-1".
NumberToString(h) ==
    LET a  == IF h < 0 THEN -h ELSE h
        ip == NatToString(a \div 100)
        f  == a % 100
        fp == IF f = 0 THEN <<>>
              ELSE IF f % 10 = 0 THEN <<".", DigitChar(f \div 10)>>
              ELSE <<".", DigitChar(f \div 10), DigitChar(f % 10)>>
    IN  (IF h < 0 THEN <<"-">> ELSE <<>>) \o ip \o fp

-----------------------------------------------------------------------------
(* JSON values as JavaScript sees them.                                    *)

JNull == [k |-> "null"]
JUndefined == [k |-> "undefined"]
JStr(s) == [k |-> "str", v |-> s]
JNum(h) == [k |-> "num", v |-> h]
JArr(a) == [k |-> "arr", v |-> a]

\* typeof x
typeof(x) ==
    CASE x.k = "str" -> "string"
      [] x.k = "num" -> "number"
      [] x.k = "undefined" -> "undefined"
      [] OTHER -> "object"

\* ToBoolean(x): what `x || y` and `!x` test
truthy(x) ==
    CASE x.k = "null" -> FALSE
      [] x.k = "undefined" -> FALSE
      [] x.k = "str" -> Len(x.v) > 0
      [] x.k = "num" -> x.v # 0
      [] OTHER -> TRUE

RECURSIVE ToStr(_)
\* ToString(x) of ECMAScript, which RegExp.prototype.test applies to its argument: an
\* array is its elements joined by ",", null and undefined elements empty.
ToStr(x) ==
    CASE x.k = "str" -> x.v
      [] x.k = "num" -> NumberToString(x.v)
      [] x.k = "null" -> <<"n","u","l","l">>
      [] x.k = "undefined" -> <<"u","n","d","e","f","i","n","e","d">>
      [] x.k = "arr" ->
            Join([i \in 1..Len(x.v) |->
                    IF x.v[i].k \in {"null", "undefined"} THEN <<>>
                    ELSE ToStr(x.v[i])], <<",">>)

\* An object literal of the record schema; an absent property reads undefined.
Obj(date, type, category, sub_category, amount, note) ==
    [k |-> "obj", date |-> date, type |-> type, category |-> category,
     sub_category |-> sub_category, amount |-> amount, note |-> note]

-----------------------------------------------------------------------------
(* structure_with_gemini: the AI structuring extractor.                    *)

Str_in == <<"i","n">>
Str_out == <<"o","u","t">>

\* const cats = [...] in validate
cats ==
    { <<"s","h","o","p","p","i","n","g">>, <<"r","e","n","t">>,
      <<"u","t","i","l","i","t","y">>, <<"g","r","o","c","e","r","y">>,
      <<"d","i","n","i","n","g">>,
      <<"t","r","a","n","s","p","o","r","t","a","t","i","o","n">>,
      <<"e","n","t","e","r","t","a","i","n","m","e","n","t">>,
      <<"h","e","a","l","t","h">>, <<"i","n","c","o","m","e">>,
      <<"f","e","e","s">>, <<"t","r","a","n","s","f","e","r","s">>,
      <<"e","d","u","c","a","t","i","o","n">>, <<"o","t","h","e","r">> }

\* /^\d{4}-\d{2}-\d{2}$/ on a string
MatchesDateRegex(s) ==
    /\ Len(s) = 10
    /\ \A i \in {1, 2, 3, 4, 6, 7, 9, 10} : s[i] \in Digits
    /\ s[5] = "-"
    /\ s[8] = "-"

\* /^\d{4}-\d{2}-\d{2}$/.test(x): the argument is converted to a string
DateRegexTest(x) == MatchesDateRegex(ToStr(x))

\* [a, b].includes(x): strict equality with a string of the list
includes(list, x) == x.k = "str" /\ x.v \in list

Err(msg) == [ok |-> FALSE, error |-> msg]
Ok(val) == [ok |-> TRUE, val |-> val]

\* Mutant: the sign of the amount is not looked at.
AmountRefused_TypeOnly(amount) == typeof(amount) # "number"

\* The amount test of validate: true when the amount is refused.
AmountRefused(amount) == typeof(amount) # "number" \/ amount.v < 0

\* Mutant: lower-cased, not cut.
NormalizeSubCategory_NoSlice(s) == toLowerCase(s)

\* The normalisation validate applies to a string sub_category.
NormalizeSubCategory(s) == slice(toLowerCase(s), 0, SubCategoryMax)

\* validate(rec): the record, normalised, or the Error thrown.
validate(rec) ==
    IF ~truthy(rec) \/ typeof(rec) # "object" THEN Err("Invalid record structure")
    ELSE IF rec.k # "obj" \/ ~includes({Str_in, Str_out}, rec.type)
        THEN Err("Invalid type - must be 'in' or 'out'")
    ELSE IF ~includes(cats, rec.category) THEN Err("Invalid category")
    ELSE IF AmountRefused(rec.amount)
        THEN Err("Invalid amount - must be positive number")
    ELSE IF rec.date # JNull /\ ~DateRegexTest(rec.date)
        THEN Err("Invalid date format - must be YYYY-MM-DD")
    ELSE IF rec.sub_category # JNull /\ typeof(rec.sub_category) # "string"
        THEN Err("Invalid sub_category")
    ELSE IF rec.note # JNull /\ typeof(rec.note) # "string"
        THEN Err("Invalid note")
    ELSE Ok(IF typeof(rec.sub_category) = "string"
            THEN [rec EXCEPT !.sub_category =
                        JStr(NormalizeSubCategory(rec.sub_category.v))]
            ELSE rec)

(* The text Gemini returns, as a sequence of tokens: white space, text     *)
(* without braces, an opening brace, a closing brace, and the members of   *)
(* one object (a comma-separated list of "key": value pairs, none of them  *)
(* an object).                                                             *)
TokWs == [t |-> "ws"]
TokText == [t |-> "text"]
TokLb == [t |-> "{"]
TokRb == [t |-> "}"]
TokMembers(obj) == [t |-> "members", obj |-> obj]

RECURSIVE trimStart(_)
trimStart(s) == IF Len(s) > 0 /\ s[1] = TokWs THEN trimStart(Tail(s)) ELSE s

RECURSIVE trimEnd(_)
trimEnd(s) ==
    IF Len(s) > 0 /\ s[Len(s)] = TokWs THEN trimEnd(SubSeq(s, 1, Len(s) - 1)) ELSE s

\* String.prototype.trim
trim(s) == trimEnd(trimStart(s))

\* s.match(/\{[\s\S]*\}$/): the match, from the first "{" on, when the text
\* ends with "}"; <<>> (no match) otherwise.
MatchBraces(s) ==
    LET lbs == {i \in 1..Len(s) : s[i] = TokLb}
    IN  IF lbs = {} \/ s[Len(s)] # TokRb THEN <<>>
        ELSE SubSeq(s, CHOOSE i \in lbs : \A j \in lbs : i <= j, Len(s))

RECURSIVE SkipWs(_)
SkipWs(s) ==
    IF Len(s) = 0 THEN <<>>
    ELSE IF s[1] = TokWs THEN SkipWs(Tail(s))
    ELSE <<s[1]>> \o SkipWs(Tail(s))

EmptyObject == Obj(JUndefined, JUndefined, JUndefined, JUndefined, JUndefined, JUndefined)

\* JSON.parse of a text that starts with "{": white space between tokens
\* is skipped; the text is an object, or a SyntaxError is thrown.
JSONparse(m) ==
    LET toks == SkipWs(m)
    IN  IF Len(toks) = 3 /\ toks[1] = TokLb /\ toks[2].t = "members" /\ toks[3] = TokRb
        THEN Ok(toks[2].obj)
        ELSE IF toks = <<TokLb, TokRb>> THEN Ok(EmptyObject)
        ELSE Err("SyntaxError")

\* extractJson(s)
extractJson(s) ==
    LET m == MatchBraces(s)
    IN  IF m = <<>> THEN Err("No JSON found in response")
        ELSE IF JSONparse(m).ok THEN JSONparse(m)
        ELSE Err("Invalid JSON in response")

(* What the fetch of callGemini yields: an error (GEMINI_API_KEY missing,  *)
(* the request failing, a non-2xx reply) or the first candidate's text.    *)
GeminiError == [ok |-> FALSE]
GeminiText(text) == [ok |-> TRUE, text |-> text]

\* callGemini(prompt): the trimmed text, or the Error thrown.
callGemini(gemini) ==
    IF ~gemini.ok THEN Err("Gemini API error") ELSE Ok(trim(gemini.text))

\* Lines 154-171 of the handler: validate(extractJson(await callGemini(..)))
\* and the Response built from it.
StructureResponse(gemini) ==
    LET resp == callGemini(gemini)
        json == IF resp.ok THEN extractJson(resp.val) ELSE resp
        rec  == IF json.ok THEN validate(json.val) ELSE json
    IN  IF rec.ok
        THEN [status |-> 200, ok |-> TRUE, record |-> rec.val]
        ELSE [status |-> 500, ok |-> FALSE, error |-> rec.error]

-----------------------------------------------------------------------------
(* _shared/categorizer.ts: the keyword categorizer.                        *)

\* s.includes(sub)
Includes(s, sub) ==
    \E i \in 1..(Len(s) - Len(sub) + 1) : SubSeq(s, i, i + Len(sub) - 1) = sub

\* CATEGORY_KEYWORDS, in the order Object.entries yields it.
CATEGORY_KEYWORDS ==
    <<
      [category |-> <<"D","i","n","i","n","g">>,
       keywords |->
         <<<<"s","t","a","r","b","u","c","k","s">>, 
           <<"m","c","d","o","n","a","l","d">>, <<"k","f","c">>, 
           <<"r","e","s","t","a","u","r","a","n","t">>, 
           <<"c","a","f","e">>, <<"u","b","e","r","e","a","t","s">>, 
           <<"d","o","o","r","d","a","s","h">>, <<"p","i","z","z","a">>, 
           <<"b","u","r","g","e","r">>, <<"s","u","b","w","a","y">>, 
           <<"t","i","m"," ","h","o","r","t","o","n","s">>, 
           <<"w","e","n","d","y">>, 
           <<"t","a","c","o"," ","b","e","l","l">>, 
           <<"d","o","m","i","n","o">>, <<"f","o","o","d">>, 
           <<"b","a","r">>, <<"p","u","b">>, 
           <<"b","i","s","t","r","o">>, <<"d","i","n","e","r">>, 
           <<"g","r","i","l","l">>>>],
      [category |-> <<"G","r","o","c","e","r","i","e","s">>,
       keywords |->
         <<<<"w","a","l","m","a","r","t">>, <<"c","o","s","t","c","o">>, 
           <<"n","o"," ","f","r","i","l","l","s">>, 
           <<"l","o","b","l","a","w","s">>, <<"a","l","d","i">>, 
           <<"k","r","o","g","e","r">>, <<"m","e","t","r","o">>, 
           <<"s","u","p","e","r","m","a","r","k","e","t">>, 
           <<"g","r","o","c","e","r","y">>, 
           <<"f","o","o","d"," ","b","a","s","i","c","s">>, 
           <<"s","o","b","e","y","s">>, <<"s","a","f","e","w","a","y">>, 
           <<"w","h","o","l","e"," ","f","o","o","d","s">>, 
           <<"p","r","o","d","u","c","e">>, <<"m","a","r","k","e","t">>>>],
      [category |-> <<"T","r","a","n","s","p","o","r","t">>,
       keywords |->
         <<<<"u","b","e","r">>, <<"l","y","f","t">>, <<"g","a","s">>, 
           <<"s","h","e","l","l">>, <<"e","s","s","o">>, 
           <<"p","e","t","r","o">>, <<"b","p">>, 
           <<"m","e","t","r","o"," ","p","a","s","s">>, 
           <<"f","u","e","l">>, <<"t","a","x","i">>, <<"b","u","s">>, 
           <<"t","r","a","n","s","i","t">>, 
           <<"p","a","r","k","i","n","g">>, <<"t","o","l","l">>, 
           <<"c","a","r"," ","w","a","s","h">>, 
           <<"v","e","h","i","c","l","e">>, 
           <<"a","u","t","o","m","o","t","i","v","e">>>>],
      [category |-> <<"U","t","i","l","i","t","i","e","s">>,
       keywords |->
         <<<<"h","y","d","r","o">>, <<"e","l","e","c","t","r","i","c">>, 
           <<"w","a","t","e","r">>, <<"g","a","s"," ","b","i","l","l">>, 
           <<"i","n","t","e","r","n","e","t">>, 
           <<"r","o","g","e","r","s">>, <<"b","e","l","l">>, 
           <<"v","e","r","i","z","o","n">>, <<"p","h","o","n","e">>, 
           <<"c","a","b","l","e">>, <<"u","t","i","l","i","t","y">>, 
           <<"p","o","w","e","r">>, <<"h","e","a","t","i","n","g">>, 
           <<"c","o","o","l","i","n","g">>>>],
      [category |-> <<"R","e","n","t">>,
       keywords |->
         <<<<"r","e","n","t">>, <<"l","a","n","d","l","o","r","d">>, 
           <<"p","r","o","p","e","r","t","y"," ","m","g","m","t">>, 
           <<"l","e","a","s","e">>, <<"h","o","u","s","i","n","g">>, 
           <<"a","p","a","r","t","m","e","n","t">>, 
           <<"c","o","n","d","o">>, <<"m","o","r","t","g","a","g","e">>>>],
      [category |-> <<"I","n","c","o","m","e">>,
       keywords |->
         <<<<"s","a","l","a","r","y">>, <<"p","a","y","r","o","l","l">>, 
           <<"d","e","p","o","s","i","t">>, 
           <<"c","r","e","d","i","t","e","d">>, 
           <<"r","e","f","u","n","d">>, 
           <<"t","r","a","n","s","f","e","r"," ","i","n">>, 
           <<"b","o","n","u","s">>, 
           <<"c","o","m","m","i","s","s","i","o","n">>, 
           <<"d","i","v","i","d","e","n","d">>, 
           <<"i","n","t","e","r","e","s","t">>, 
           <<"p","a","y","m","e","n","t"," ","r","e","c","e","i","v","e","d">>>>],
      [category |-> <<"S","h","o","p","p","i","n","g">>,
       keywords |->
         <<<<"a","m","a","z","o","n">>, <<"t","a","r","g","e","t">>, 
           <<"b","e","s","t"," ","b","u","y">>, 
           <<"c","l","o","t","h","i","n","g">>, <<"s","h","o","e","s">>, 
           <<"e","l","e","c","t","r","o","n","i","c","s">>, 
           <<"d","e","p","a","r","t","m","e","n","t"," ","s","t","o","r","e">>, 
           <<"m","a","l","l">>, <<"r","e","t","a","i","l">>, 
           <<"p","u","r","c","h","a","s","e">>>>],
      [category |-> <<"H","e","a","l","t","h","c","a","r","e">>,
       keywords |->
         <<<<"p","h","a","r","m","a","c","y">>, 
           <<"d","o","c","t","o","r">>, 
           <<"h","o","s","p","i","t","a","l">>, 
           <<"c","l","i","n","i","c">>, <<"m","e","d","i","c","a","l">>, 
           <<"d","e","n","t","a","l">>, 
           <<"p","r","e","s","c","r","i","p","t","i","o","n">>, 
           <<"h","e","a","l","t","h">>, 
           <<"i","n","s","u","r","a","n","c","e">>>>],
      [category |-> <<"E","n","t","e","r","t","a","i","n","m","e","n","t">>,
       keywords |->
         <<<<"m","o","v","i","e">>, <<"t","h","e","a","t","e","r">>, 
           <<"n","e","t","f","l","i","x">>, 
           <<"s","p","o","t","i","f","y">>, <<"g","a","m","e">>, 
           <<"c","o","n","c","e","r","t">>, 
           <<"e","n","t","e","r","t","a","i","n","m","e","n","t">>, 
           <<"s","t","r","e","a","m","i","n","g">>, 
           <<"s","u","b","s","c","r","i","p","t","i","o","n">>>>]
    >>

Str_Income == <<"I","n","c","o","m","e">>
Str_Uncategorized == <<"U","n","c","a","t","e","g","o","r","i","z","e","d">>
Str_credit == <<"c","r","e","d","i","t">>
Str_debit == <<"d","e","b","i","t">>

IncomeKeywords ==
    LET e == CHOOSE i \in 1..Len(CATEGORY_KEYWORDS) :
                 CATEGORY_KEYWORDS[i].category = Str_Income
    IN  CATEGORY_KEYWORDS[e].keywords

\* Some keyword of the list is a substring of the description.
AnyKeyword(keywords, lowerDescription) ==
    \E j \in 1..Len(keywords) : Includes(lowerDescription, keywords[j])

\* Mutant: without the check of the Income keywords for a credit first.
categorizeTransaction_TableOnly(description, type) ==
    LET lowerDescription == toLowerCase(description)
        hit(i) == /\ ~(CATEGORY_KEYWORDS[i].category = Str_Income /\ type # Str_credit)
                  /\ AnyKeyword(CATEGORY_KEYWORDS[i].keywords, lowerDescription)
        hits == {i \in 1..Len(CATEGORY_KEYWORDS) : hit(i)}
    IN  IF hits # {}
        THEN CATEGORY_KEYWORDS[CHOOSE i \in hits : \A j \in hits : i <= j].category
        ELSE Str_Uncategorized

\* categorizeTransaction(description, type)
categorizeTransaction(description, type) ==
    LET lowerDescription == toLowerCase(description)
        hit(i) == /\ ~(CATEGORY_KEYWORDS[i].category = Str_Income /\ type # Str_credit)
                  /\ AnyKeyword(CATEGORY_KEYWORDS[i].keywords, lowerDescription)
        hits == {i \in 1..Len(CATEGORY_KEYWORDS) : hit(i)}
    IN  IF type = Str_credit /\ AnyKeyword(IncomeKeywords, lowerDescription)
        THEN Str_Income
        ELSE IF hits # {}
        THEN CATEGORY_KEYWORDS[CHOOSE i \in hits : \A j \in hits : i <= j].category
        ELSE Str_Uncategorized

-----------------------------------------------------------------------------
(* Calendar dates, as the date column of the transactions table reads     *)
(* them.                                                                   *)

DigitVal(c) == CHOOSE d \in 0..9 : DigitChar(d) = c

RECURSIVE DigitsVal(_)
\* parseInt of a string of digits
DigitsVal(s) ==
    IF Len(s) = 0 THEN 0 ELSE 10 * DigitsVal(SubSeq(s, 1, Len(s) - 1)) + DigitVal(s[Len(s)])

IsLeapYear(y) == (y % 4 = 0 /\ y % 100 # 0) \/ y % 400 = 0

DaysInMonth(y, m) ==
    IF m = 2 THEN (IF IsLeapYear(y) THEN 29 ELSE 28)
    ELSE IF m \in {4, 6, 9, 11} THEN 30 ELSE 31

\* A YYYY-MM-DD string that names a day of the calendar.
IsCalendarDate(s) ==
    /\ MatchesDateRegex(s)
    /\ LET m == DigitsVal(SubSeq(s, 6, 7))
           d == DigitsVal(SubSeq(s, 9, 10))
       IN  /\ m \in 1..12
           /\ d \in 1..DaysInMonth(DigitsVal(SubSeq(s, 1, 4)), m)

-----------------------------------------------------------------------------
(* _shared/receipt-parser.ts: the legacy rule-based parser.                *)

\* The characters \s matches, and [a-zA-Z].
Spaces == {" ", "\n", "\t", "\r"}
Letters == {UpperLetters[i] : i \in 1..26} \cup {LowerLetters[i] : i \in 1..26}

\* The length of the longest run of characters of the class that starts at
\* position i: what a greedy class* consumes there.
Run(s, i, class) ==
    IF i > Len(s) THEN 0
    ELSE CHOOSE n \in 0..(Len(s) - i + 1) :
            /\ \A k \in 0..(n - 1) : s[i + k] \in class
            /\ i + n > Len(s) \/ s[i + n] \notin class

\* Line 9: ocrText.split('\n').map(line => line.trim()).filter(line =>
\* line.length > 0)
SplitLines(ocrText) ==
    LET lineTrim(s) ==
            LET lead == Run(s, 1, Spaces)
            IN  IF lead = Len(s) THEN <<>>
                ELSE SubSeq(s, lead + 1,
                            CHOOSE j \in 1..Len(s) :
                                /\ s[j] \notin Spaces
                                /\ \A k \in (j + 1)..Len(s) : s[k] \in Spaces)
        nl == {i \in 1..Len(ocrText) : ocrText[i] = "\n"}
        \* the n-th line break, 0 before the first, Len + 1 after the last
        brk(n) == IF n = 0 THEN 0
                  ELSE IF n > Cardinality(nl) THEN Len(ocrText) + 1
                  ELSE CHOOSE p \in nl : Cardinality({q \in nl : q < p}) = n - 1
        parts == [n \in 1..(Cardinality(nl) + 1) |->
                    lineTrim(SubSeq(ocrText, brk(n - 1) + 1, brk(n) - 1))]
        NonEmpty(line) == Len(line) > 0
    IN  SelectSeq(parts, NonEmpty)

\* The characters of /[$€£¥₹₽]/.
CurrencySymbols == {"$", "€", "£", "¥", "₹", "₽"}

\* s without the characters of the class: s.replace(/[class]/g, '').
Without(s, class) ==
    LET Kept(c) == c \notin class IN SelectSeq(s, Kept)

\* The length of the match of /\d+\.?\d*/ that starts at the digit at i.
NumberLen(s, i) ==
    LET n == Run(s, i, Digits)
    IN  IF i + n <= Len(s) /\ s[i + n] = "."
        THEN n + 1 + Run(s, i + n + 1, Digits) ELSE n

\* parseFloat of digits, or digits "." digits, in hundredths.  The texts of
\* the model have at most two digits after a point.
parseFloat(s) ==
    LET n == Run(s, 1, Digits)
        f == SubSeq(s, n + 2, Len(s)) \o <<"0", "0">>
    IN  100 * DigitsVal(SubSeq(s, 1, n)) + DigitsVal(SubSeq(f, 1, 2))

\* Lines 93-103: the numbers the two currencyPatterns match, those above 0.
\* A match is a symbol, \d{1,3}, any number of (,\d{3}) and at most one
\* (\.\d{2}).
CurrencyAmounts(text) ==
    LET ThreeDigitsAt(p) == Run(text, p, Digits) >= 3
        \* the end of the groups (,\d{3})* that start at p
        GroupsEnd(p) ==
            LET g == CHOOSE g \in 0..Len(text) :
                        /\ \A j \in 0..(g - 1) :
                              /\ p + 4 * j <= Len(text)
                              /\ text[p + 4 * j] = ","
                              /\ ThreeDigitsAt(p + 4 * j + 1)
                        /\ ~(/\ p + 4 * g <= Len(text)
                             /\ text[p + 4 * g] = ","
                             /\ ThreeDigitsAt(p + 4 * g + 1))
            IN  p + 4 * g
        \* the end of (\.\d{2})? at q
        CentsEnd(q) ==
            IF q <= Len(text) /\ text[q] = "." /\ Run(text, q + 1, Digits) >= 2
            THEN q + 3 ELSE q
        Amount(i) ==
            LET d == Run(text, i + 1, Digits)
                e == CentsEnd(GroupsEnd(i + 1 + (IF d > 3 THEN 3 ELSE d)))
            IN  parseFloat(Without(SubSeq(text, i + 1, e - 1), {","}))
        matches == {i \in 1..Len(text) :
                        text[i] \in CurrencySymbols /\ Run(text, i + 1, Digits) >= 1}
    IN  {Amount(i) : i \in matches} \ {0}

\* extractNumberFromLine(line)
extractNumberFromLine(line) ==
    LET cleaned == Without(line, CurrencySymbols \cup {","})
        starts == {i \in 1..Len(cleaned) : cleaned[i] \in Digits}
    IN  IF starts = {} THEN 0
        ELSE LET i == CHOOSE i \in starts : \A j \in starts : i <= j
             IN  parseFloat(SubSeq(cleaned, i, i + NumberLen(cleaned, i) - 1))

\* extractAllNumbers(text)
extractAllNumbers(text) ==
    LET cleaned == Without(text, CurrencySymbols \cup {","})
        \* cleaned.match(/\d+\.?\d*/g) from position i on, each match parsed
        RECURSIVE MatchNumbers(_)
        MatchNumbers(i) ==
            IF i > Len(cleaned) THEN <<>>
            ELSE IF cleaned[i] \notin Digits THEN MatchNumbers(i + 1)
            ELSE <<parseFloat(SubSeq(cleaned, i, i + NumberLen(cleaned, i) - 1))>>
                    \o MatchNumbers(i + NumberLen(cleaned, i))
        Positive(num) == num > 0
    IN  SelectSeq(MatchNumbers(1), Positive)

\* Mutant: the last resort without the ceiling of 100000.
extractAmount_NoCeiling(text, lines) ==
    LET MathMax(numbers) == CHOOSE n \in numbers : \A m \in numbers : m <= n
        amounts == CurrencyAmounts(text)
        TotalLine(n) ==
            LET lowerLine == toLowerCase(lines[n])
            IN  /\ \/ Includes(lowerLine, <<"t","o","t","a","l">>)
                   \/ Includes(lowerLine, <<"a","m","o","u","n","t">>)
                   \/ Includes(lowerLine, <<"b","a","l","a","n","c","e">>)
                /\ extractNumberFromLine(lines[n]) > 0
        totals == {n \in 1..Len(lines) : TotalLine(n)}
        numbers == extractAllNumbers(text)
        reasonableAmounts == {numbers[j] : j \in 1..Len(numbers)} \ {0}
    IN  IF amounts # {} THEN MathMax(amounts)
        ELSE IF totals # {}
        THEN extractNumberFromLine(lines[CHOOSE n \in totals : \A m \in totals : n <= m])
        ELSE IF reasonableAmounts # {} THEN MathMax(reasonableAmounts)
        ELSE 0

\* extractAmount(text, lines); amounts are in hundredths.
extractAmount(text, lines) ==
    LET MathMax(numbers) == CHOOSE n \in numbers : \A m \in numbers : m <= n
        amounts == CurrencyAmounts(text)
        TotalLine(n) ==
            LET lowerLine == toLowerCase(lines[n])
            IN  /\ \/ Includes(lowerLine, <<"t","o","t","a","l">>)
                   \/ Includes(lowerLine, <<"a","m","o","u","n","t">>)
                   \/ Includes(lowerLine, <<"b","a","l","a","n","c","e">>)
                /\ extractNumberFromLine(lines[n]) > 0
        totals == {n \in 1..Len(lines) : TotalLine(n)}
        numbers == extractAllNumbers(text)
        reasonableAmounts == {numbers[j] : j \in 1..Len(numbers)} \cap 1..9999999
    IN  IF amounts # {} THEN MathMax(amounts)
        ELSE IF totals # {}
        THEN extractNumberFromLine(lines[CHOOSE n \in totals : \A m \in totals : n <= m])
        ELSE IF reasonableAmounts # {} THEN MathMax(reasonableAmounts)
        ELSE 0

\* line.match(pattern) over the two merchantPatterns, lines 177-183: the
\* text of match[1], <<>> when neither pattern matches.  The first pattern
\* is anchored at both ends of the line; the second matches a name at any
\* position that is followed by white space.  Both ignore case.
MerchantMatch(line) ==
    LET KnownMerchants ==
            << <<"A","m","a","z","o","n">>, <<"W","a","l","m","a","r","t">>, <<"C","o","s","t","c","o">>,
            <<"T","a","r","g","e","t">>, <<"S","t","a","r","b","u","c","k","s">>, <<"M","c","D","o","n","a","l","d">>,
            <<"T","i","m"," ","H","o","r","t","o","n","s">>, <<"U","b","e","r">>, <<"L","y","f","t">>,
            <<"N","e","t","f","l","i","x">>, <<"S","p","o","t","i","f","y">>, <<"A","p","p","l","e">>,
            <<"G","o","o","g","l","e">>, <<"M","i","c","r","o","s","o","f","t">>, <<"P","a","y","P","a","l">> >>
        lower == toLowerCase(line)
        NameAt(i, k) ==
            LET name == toLowerCase(KnownMerchants[k])
            IN  /\ i + Len(name) <= Len(line)
                /\ SubSeq(lower, i, i + Len(name) - 1) = name
                /\ line[i + Len(name)] \in Spaces
        starts == {i \in 1..Len(line) : \E k \in 1..Len(KnownMerchants) : NameAt(i, k)}
    IN  IF \E k \in 1..Len(KnownMerchants) : lower = toLowerCase(KnownMerchants[k])
        THEN line
        ELSE IF starts = {} THEN <<>>
        ELSE LET i == CHOOSE i \in starts : \A j \in starts : i <= j
                 k == CHOOSE k \in 1..Len(KnownMerchants) : NameAt(i, k)
             IN  SubSeq(line, i, i + Len(KnownMerchants[k]) - 1)

\* The filter without its lower bound on the length.
IsCandidate_NoLowerBound(line) ==
    LET lower == toLowerCase(line)
        \* the substrings of lines 193-203 that rule a line out
        MerchantExclusions ==
            { <<"t","r","a","n","s","a","c","t","i","o","n">>, <<"d","e","t","a","i","l","s">>, <<"p","o","s","t","e","d">>,
           <<"c","a","r","d"," ","n","u","m","b","e","r">>, <<"c","a","t","e","g","o","r","y">>, <<"b","u","d","g","e","t">>,
           <<"n","o","t","e">>, <<"m","e","r","c","h","a","n","t">>, <<"w","e","b","s","i","t","e">>,
           <<"f","r","i">>, <<"m","o","n">>, <<"t","u","e">>,
           <<"w","e","d">>, <<"t","h","u">>, <<"s","a","t">>,
           <<"s","u","n">> }
    IN  /\ Len(line) < 50
        /\ \E i \in 1..Len(line) : line[i] \in Letters
        /\ \A x \in MerchantExclusions : ~Includes(lower, x)
        /\ ~(/\ line[1] \in Digits
             /\ \A i \in 1..Len(line) :
                    line[i] \in Digits \cup Spaces \cup {"/", "-", ".", ":", "*"})
        /\ ~(Len(line) >= 2 /\ line[1] = "$" /\ line[2] \in Digits)
        /\ ~Includes(line, <<"8","6","6","-">>)
        /\ ~Includes(line, <<"p","h","o","n","e">>)

\* The filter of lines 187-208.
IsCandidate(line) ==
    LET lower == toLowerCase(line)
        \* the substrings of lines 193-203 that rule a line out
        MerchantExclusions ==
            { <<"t","r","a","n","s","a","c","t","i","o","n">>, <<"d","e","t","a","i","l","s">>, <<"p","o","s","t","e","d">>,
           <<"c","a","r","d"," ","n","u","m","b","e","r">>, <<"c","a","t","e","g","o","r","y">>, <<"b","u","d","g","e","t">>,
           <<"n","o","t","e">>, <<"m","e","r","c","h","a","n","t">>, <<"w","e","b","s","i","t","e">>,
           <<"f","r","i">>, <<"m","o","n">>, <<"t","u","e">>,
           <<"w","e","d">>, <<"t","h","u">>, <<"s","a","t">>,
           <<"s","u","n">> }
    IN  /\ Len(line) > 2
        /\ Len(line) < 50
        /\ \E i \in 1..Len(line) : line[i] \in Letters
        /\ \A x \in MerchantExclusions : ~Includes(lower, x)
        /\ ~(/\ line[1] \in Digits
             /\ \A i \in 1..Len(line) :
                    line[i] \in Digits \cup Spaces \cup {"/", "-", ".", ":", "*"})
        /\ ~(Len(line) >= 2 /\ line[1] = "$" /\ line[2] \in Digits)
        /\ ~Includes(line, <<"8","6","6","-">>)
        /\ ~Includes(line, <<"p","h","o","n","e">>)

\* extractMerchant with the first candidate taken in place of the shortest.
extractMerchant_FirstCandidate(lines) ==
    LET hits == {n \in 1..Len(lines) : MerchantMatch(lines[n]) # <<>>}
        candidateLines == SelectSeq(lines, IsCandidate)
    IN  IF hits # {}
        THEN MerchantMatch(lines[CHOOSE n \in hits : \A m \in hits : n <= m])
        ELSE IF Len(candidateLines) > 0 THEN candidateLines[1]
        ELSE <<"U","n","k","n","o","w","n"," ","M","e","r","c","h","a","n","t">>

\* extractMerchant(lines, fullText)
extractMerchant(lines) ==
    LET hits == {n \in 1..Len(lines) : MerchantMatch(lines[n]) # <<>>}
        candidateLines == SelectSeq(lines, IsCandidate)
        \* candidateLines.sort((a, b) => a.length - b.length): a stable sort
        RECURSIVE SortByLength(_)
        SortByLength(c) ==
            IF Len(c) <= 1 THEN c
            ELSE LET rest == SortByLength(Tail(c))
                     before == Cardinality({j \in 1..Len(rest) : Len(rest[j]) < Len(c[1])})
                 IN  SubSeq(rest, 1, before) \o <<c[1]>> \o SubSeq(rest, before + 1, Len(rest))
    IN  IF hits # {}
        THEN MerchantMatch(lines[CHOOSE n \in hits : \A m \in hits : n <= m])
        ELSE IF Len(candidateLines) > 0 THEN SortByLength(candidateLines)[1]
        ELSE <<"U","n","k","n","o","w","n"," ","M","e","r","c","h","a","n","t">>

\* extractType(text)
extractType(text) ==
    LET creditIndicators ==
            { <<"c","r","e","d","i","t","e","d">>, <<"r","e","f","u","n","d">>, <<"s","a","l","a","r","y">>,
           <<"p","a","y","r","o","l","l">>, <<"d","e","p","o","s","i","t">>, <<"b","o","n","u","s">>,
           <<"c","o","m","m","i","s","s","i","o","n">>, <<"d","i","v","i","d","e","n","d">>, <<"i","n","t","e","r","e","s","t">>,
           <<"p","a","y","m","e","n","t"," ","r","e","c","e","i","v","e","d">>, <<"t","r","a","n","s","f","e","r"," ","i","n">>, <<"i","n","c","o","m","e">>,
           <<"c","r","e","d","i","t">>, <<"r","e","c","e","i","v","e","d">> }
    IN  IF \E indicator \in creditIndicators : Includes(toLowerCase(text), indicator)
        THEN Str_credit ELSE Str_debit

\* The month names of the datePatterns and the keys of monthMap, in the
\* order of their numbers.
MonthNames ==
    << <<"J","a","n">>, <<"F","e","b">>, <<"M","a","r">>, <<"A","p","r">>, <<"M","a","y">>, <<"J","u","n">>,
       <<"J","u","l">>, <<"A","u","g">>, <<"S","e","p">>, <<"O","c","t">>, <<"N","o","v">>, <<"D","e","c">> >>

\* n without the padding.
Pad2_NoPad(n) == NatToString(n)

\* n as two digits
Pad2(n) == <<DigitChar(n \div 10), DigitChar(n % 10)>>

\* text.match(datePatterns[k])[0], lines 33-45: the leftmost match of the
\* k-th pattern, <<>> when there is none.  Every element of these patterns
\* is followed by one that cannot start with a character it accepts, so a
\* match from a position is unique: \d{1,2} and \d{4} take a whole run of
\* digits, \s+ a whole run of white space, [a-z]* a whole run of letters.
DateMatch(text, k) ==
    LET Pos == 0..(Len(text) + 1)
        IsWord(q) == q \in 1..Len(text) /\ text[q] \in Letters \cup Digits \cup {"_"}
        \* each element: the position after it, 0 when it does not match
        Boundary == [q \in Pos |-> IF q # 0 /\ IsWord(q - 1) # IsWord(q) THEN q ELSE 0]
        Name(names) ==
            [q \in Pos |->
                IF /\ q # 0 /\ q + 2 <= Len(text)
                   /\ \E j \in 1..Len(names) :
                        toLowerCase(SubSeq(text, q, q + 2)) = toLowerCase(names[j])
                THEN q + 3 ELSE 0]
        Ws == [q \in Pos |-> IF q # 0 /\ Run(text, q, Spaces) >= 1
                             THEN q + Run(text, q, Spaces) ELSE 0]
        D12 == [q \in Pos |-> IF q # 0 /\ Run(text, q, Digits) \in {1, 2}
                              THEN q + Run(text, q, Digits) ELSE 0]
        D4 == [q \in Pos |-> IF q # 0 /\ Run(text, q, Digits) = 4 THEN q + 4 ELSE 0]
        Comma == [q \in Pos |-> IF q # 0 /\ q <= Len(text) /\ text[q] = ","
                                THEN q + 1 ELSE q]
        Sep == [q \in Pos |-> IF q # 0 /\ q <= Len(text) /\ text[q] \in {"/", "-", "."}
                              THEN q + 1 ELSE 0]
        Az == [q \in Pos |-> IF q # 0 THEN q + Run(text, q, Letters) ELSE 0]
        Month == Name(MonthNames)
        Weekday == Name(<< <<"M","o","n">>, <<"T","u","e">>, <<"W","e","d">>, <<"T","h","u">>,
                           <<"F","r","i">>, <<"S","a","t">>, <<"S","u","n">> >>)
        MonthDayYear == [q \in Pos |-> Boundary[D4[Ws[Comma[D12[Ws[Month[q]]]]]]]]
        End(i) ==
            CASE k = 1 -> MonthDayYear[Ws[Comma[Weekday[Boundary[i]]]]]
              [] k = 2 -> MonthDayYear[Boundary[i]]
              [] k = 3 -> Boundary[D4[Sep[D12[Sep[D12[Boundary[i]]]]]]]
              [] k = 4 -> Boundary[D12[Sep[D12[Sep[D4[Boundary[i]]]]]]]
              [] k = 5 -> Boundary[D4[Ws[Az[Month[Ws[D12[Boundary[i]]]]]]]]
        starts == {i \in 1..Len(text) : End(i) # 0}
        Matched(i) == SubSeq(text, i, End(i) - 1)
    IN  IF starts = {} THEN <<>>
        ELSE Matched(CHOOSE i \in starts : \A j \in starts : i <= j)

\* Lines 49-68: for a dateStr that includes a month name as monthMap
\* spells it, the match of /(Jan|...|Dec)\s+(\d{1,2}),?\s+(\d{4})/i decoded
\* through monthMap; <<>> when this branch returns nothing.
MonthDecode(dateStr) ==
    LET \* the groups of a match at i: where the day starts, its length and
        \* where the year starts; <<>> when there is no match at i
        Groups(i) ==
            LET Year(day, dayLen, afterDay, year) ==
                    IF /\ day > i + 3 /\ dayLen \in {1, 2} /\ year > afterDay
                       /\ Run(dateStr, year, Digits) >= 4
                    THEN <<day, dayLen, year>> ELSE <<>>
                Comma(day, dayLen, afterDay) ==
                    Year(day, dayLen, afterDay, afterDay + Run(dateStr, afterDay, Spaces))
                DayEnd(day, dayLen, end) ==
                    Comma(day, dayLen,
                          IF end <= Len(dateStr) /\ dateStr[end] = "," THEN end + 1 ELSE end)
                Day(day, dayLen) == DayEnd(day, dayLen, day + dayLen)
                Month(day) == Day(day, Run(dateStr, day, Digits))
            IN  IF /\ i + 2 <= Len(dateStr)
                   /\ \E j \in 1..12 :
                        toLowerCase(SubSeq(dateStr, i, i + 2)) = toLowerCase(MonthNames[j])
                THEN Month(i + 3 + Run(dateStr, i + 3, Spaces))
                ELSE <<>>
        starts == {i \in 1..Len(dateStr) : Groups(i) # <<>>}
        Pad(d) == IF Len(d) = 1 THEN <<"0">> \o d ELSE d
        MonthOf(key) == IF \E j \in 1..12 : MonthNames[j] = key
                        THEN Pad2(CHOOSE j \in 1..12 : MonthNames[j] = key)
                        ELSE <<"u","n","d","e","f","i","n","e","d">>
        Formatted(i, g) ==
            SubSeq(dateStr, g[3], g[3] + 3) \o <<"-">> \o MonthOf(SubSeq(dateStr, i, i + 2))
                \o <<"-">> \o Pad(SubSeq(dateStr, g[1], g[1] + g[2] - 1))
        At(i) == Formatted(i, Groups(i))
    IN  IF (\A j \in 1..12 : ~Includes(dateStr, MonthNames[j])) \/ starts = {}
        THEN <<>>
        ELSE At(CHOOSE i \in starts : \A j \in starts : i <= j)

\* Lines 70-73: new Date(dateStr), then toISOString().split('T')[0], for the
\* strings the datePatterns match; <<>> for an Invalid Date.  The parser of
\* the runtime (V8) reads a word by its first three letters as a month,
\* numbers in the order month, day, year, or year, month, day when the first
\* is no day, takes a month of 1..12 and a day of 1..31 and carries a day
\* past the end of its month into the next.  The runtime's time zone is UTC.
DateParse(dateStr) ==
    LET runs == {i \in 1..Len(dateStr) :
                    /\ dateStr[i] \in Digits
                    /\ i = 1 \/ dateStr[i - 1] \notin Digits}
        NumAt(i) == DigitsVal(SubSeq(dateStr, i, i + Run(dateStr, i, Digits) - 1))
        num(n) == NumAt(CHOOSE i \in runs : Cardinality({j \in runs : j < i}) = n - 1)
        named == {j \in 1..12 : \E i \in 1..(Len(dateStr) - 2) :
                    /\ i = 1 \/ dateStr[i - 1] \notin Letters
                    /\ toLowerCase(SubSeq(dateStr, i, i + 2)) = toLowerCase(MonthNames[j])}
        iso == Len(dateStr) = 10 /\ MatchesDateRegex(dateStr)
        Carried(year, month, day, over) ==
            Pad2(year \div 100) \o Pad2(year % 100) \o <<"-">>
                \o Pad2(IF over THEN month + 1 ELSE month) \o <<"-">>
                \o Pad2(IF over THEN day - DaysInMonth(year, month) ELSE day)
        Civil(year, month, day) ==
            IF month \notin 1..12 \/ day \notin 1..31 THEN <<>>
            ELSE Carried(year, month, day, day > DaysInMonth(year, month))
        Century(y, month, day) ==
            Civil(IF iso THEN y
                  ELSE IF y \in 0..49 THEN y + 2000
                  ELSE IF y \in 50..99 THEN y + 1900
                  ELSE y, month, day)
        First(n1) ==
            IF named # {}
            THEN IF n1 \in 1..31
                 THEN Century(num(2), CHOOSE j \in named : TRUE, n1)
                 ELSE Century(n1, CHOOSE j \in named : TRUE, num(2))
            ELSE IF iso \/ n1 \notin 1..31
                 THEN Century(n1, num(2), num(3))
                 ELSE Century(num(3), n1, num(2))
    IN  First(num(1))

\* extractDate(text), lines 41-78: the first pattern whose match decodes to
\* a date decides; now is new Date().toISOString().split('T')[0].
extractDate(text, now) ==
    LET ByName(dateStr, decoded) ==
            IF decoded # <<>> THEN decoded ELSE DateParse(dateStr)
        Decode(dateStr) ==
            IF dateStr = <<>> THEN <<>> ELSE ByName(dateStr, MonthDecode(dateStr))
        Found(date, otherwise) == IF date # <<>> THEN date ELSE otherwise
        Try(k, otherwise) == Found(Decode(DateMatch(text, k)), otherwise)
    IN  Try(1, Try(2, Try(3, Try(4, Try(5, now)))))

\* parseReceiptText(ocrText), lines 8-28.
parseReceiptText(ocrText, now) ==
    LET lines == SplitLines(ocrText)
    IN  [date |-> extractDate(ocrText, now),
         description |-> extractMerchant(lines),
         amount |-> extractAmount(ocrText, lines),
         type |-> extractType(ocrText)]

-----------------------------------------------------------------------------
(* process_image: the extraction orchestrator.                             *)

Str_Transaction == <<"T","r","a","n","s","a","c","t","i","o","n">>

\* Mutant: the notes carrying the processing date.
LegacyStructuredData_DatedNotes(legacyParsed) ==
    [date |-> JStr(legacyParsed.date),
     type |-> JStr(legacyParsed.type),
     category |-> JStr(categorizeTransaction(legacyParsed.description,
                                              legacyParsed.type)),
     description |-> JStr(legacyParsed.description),
     amount |-> JNum(legacyParsed.amount),
     notes |-> JStr(today)]

\* The fallback branch, lines 144-153: the canonical transaction built from
\* parseReceiptText's result and categorizeTransaction.
LegacyStructuredData(legacyParsed) ==
    [date |-> JStr(legacyParsed.date),
     type |-> JStr(legacyParsed.type),
     category |-> JStr(categorizeTransaction(legacyParsed.description,
                                              legacyParsed.type)),
     description |-> JStr(legacyParsed.description),
     amount |-> JNum(legacyParsed.amount),
     notes |-> JNull]

\* record.date || new Date().toISOString().split('T')[0]
AiDate(record, now) == IF truthy(record.date) THEN record.date ELSE JStr(now)

\* Mutant: the two directions exchanged.
AiType_Swapped(record) ==
    IF record.type = JStr(Str_in) THEN JStr(Str_debit) ELSE JStr(Str_credit)

\* Mutant: the record's own type.
AiType_Raw(record) == record.type

\* record.type === 'in' ? 'credit' : 'debit'
AiType(record) == IF record.type = JStr(Str_in) THEN JStr(Str_credit) ELSE JStr(Str_debit)

\* Mutant: record.sub_category ?? 'Transaction'
AiDescription_Nullish(record) ==
    IF record.sub_category.k \in {"null", "undefined"}
    THEN JStr(Str_Transaction) ELSE record.sub_category

\* record.sub_category || 'Transaction'
AiDescription(record) ==
    IF truthy(record.sub_category) THEN record.sub_category ELSE JStr(Str_Transaction)

\* Mutant: the category taken from the keyword categorizer.
AiStructuredData_KeywordCategory(record, now) ==
    [date |-> AiDate(record, now),
     type |-> AiType(record),
     category |-> JStr(categorizeTransaction(ToStr(AiDescription(record)), AiType(record).v)),
     description |-> AiDescription(record),
     amount |-> record.amount,
     notes |-> record.note]

\* The AI branch, lines 157-165.
AiStructuredData(record, now) ==
    [date |-> AiDate(record, now),
     type |-> AiType(record),
     category |-> record.category,
     description |-> AiDescription(record),
     amount |-> record.amount,
     notes |-> record.note]

\* structureResult.ok && structureResult.record
HasRecord(structureResult) == structureResult.ok /\ truthy(structureResult.record)

\* !structureResponse.ok: a status outside 200..299
ResponseOk(resp) == resp.status \in 200..299


(* The transactions table: NOT NULL on date, description, amount and type, *)
(* the CHECK on type, and the types of the date and amount columns.        *)
InsertAccepted(row) ==
    /\ row.date.k = "str" /\ IsCalendarDate(row.date.v)
    /\ row.description.k = "str"
    /\ row.amount.k = "num"
    /\ row.type \in {JStr(Str_debit), JStr(Str_credit)}
    /\ row.category.k = "str"
    /\ row.notes.k \in {"null", "str"}

\* The row of lines 183-192.
InsertRow(user, structuredData, imagePath) ==
    [user_id |-> user,
     date |-> structuredData.date,
     description |-> structuredData.description,
     amount |-> structuredData.amount,
     type |-> structuredData.type,
     category |-> structuredData.category,
     notes |-> structuredData.notes,
     image_path |-> imagePath]

\* imagePath.startsWith(`${user.id}/`)
StartsWith(s, prefix) == Len(prefix) <= Len(s) /\ SubSeq(s, 1, Len(prefix)) = prefix

\* Mutant: the prefix without the "/" that ends the user's folder.
OwnPath_NoSlash(imagePath, user) == StartsWith(imagePath, user)

OwnPath(imagePath, user) == StartsWith(imagePath, user \o <<"/">>)

\* The environment checks of lines 27-63: the status to return, 0 to go on.
EnvStatus(env) ==
    IF ~env.supabaseUrl \/ ~env.serviceRoleKey THEN 500
    ELSE IF env.ocrProvider = "google" /\ ~env.googleKey THEN 500
    ELSE IF env.ocrProvider = "ocrspace" /\ ~env.ocrspaceKey THEN 500
    ELSE IF env.ocrProvider \notin {"google", "ocrspace"} THEN 500
    ELSE 0

\* supabaseClient.auth.getUser(jwt): the user of a valid token, NoUser else.
NoUser == <<>>
getUser(authorization) == IF authorization.valid THEN authorization.user ELSE NoUser

\* performOCR: both providers throw when no text is detected.
performOCR(provider) ==
    IF ~provider.ok THEN Err("OCR request failed")
    ELSE IF Len(provider.text) = 0 THEN Err("No text detected in image")
    ELSE Ok(provider.text)

\* The handler of signed_image_url for a request; absent: the body has no
\* imagePath (startsWith of undefined throws into the catch of line 65);
\* storageUp: createSignedUrl succeeds.  The answer: the status, the text or
\* error of the body, the services the handler called, and the path the
\* signed URL of the body opens (<<>> when there is none).
signed_image_url(request, absent, storageUp) ==
    LET Answer(status, error, calls, signedUrl) ==
            [status |-> status, error |-> error, calls |-> calls, signedUrl |-> signedUrl]
        Verified(user, imagePath) ==
            IF user = NoUser THEN Answer(401, "Invalid authorization token", {"auth"}, <<>>)
            ELSE IF ~request.body.json \/ absent
            THEN Answer(500, "Internal server error", {"auth"}, <<>>)
            ELSE IF ~OwnPath(imagePath, user)
            THEN Answer(403, "Unauthorized access to image", {"auth"}, <<>>)
            ELSE IF ~storageUp
            THEN Answer(500, "Failed to generate signed URL", {"auth", "storage"}, <<>>)
            ELSE Answer(200, "", {"auth", "storage"}, imagePath)
    IN  IF request.method = "OPTIONS" THEN Answer(200, "ok", {}, <<>>)
        ELSE IF request.method # "POST" THEN Answer(405, "Method not allowed", {}, <<>>)
        ELSE IF ~request.authorization.present
        THEN Answer(401, "Missing Authorization header", {}, <<>>)
        ELSE Verified(getUser(request.authorization), request.body.imagePath)

\* The handler of answer_query for a request; query: "preset", "text" or
\* "none", what the body asks; understood: handleTextQuery finds a category
\* or a period in the text and queries the table.  The answer: the status,
\* the text or error of the body, the services the handler called, and the
\* user whose transactions were read (NoUser when none were).
answer_query(request, query, understood) ==
    LET Answer(status, error, calls, userId) ==
            [status |-> status, error |-> error, calls |-> calls, userId |-> userId]
        Verified(user) ==
            IF user = NoUser THEN Answer(401, "Invalid authorization token", {"auth"}, NoUser)
            ELSE IF ~request.body.json
            THEN Answer(500, "Internal server error", {"auth"}, NoUser)
            ELSE IF query = "preset" \/ (query = "text" /\ understood)
            THEN Answer(200, "", {"auth", "database"}, user)
            ELSE IF query = "text" THEN Answer(200, "", {"auth"}, NoUser)
            ELSE Answer(400, "Either preset or text query required", {"auth"}, NoUser)
    IN  IF request.method = "OPTIONS" THEN Answer(200, "ok", {}, NoUser)
        ELSE IF request.method # "POST" THEN Answer(405, "Method not allowed", {}, NoUser)
        ELSE IF ~request.authorization.present
        THEN Answer(401, "Missing Authorization header", {}, NoUser)
        ELSE Verified(getUser(request.authorization))

-----------------------------------------------------------------------------
(* Inputs of the model.                                                    *)

Str_u1 == <<"u","1">>
Str_u2 == <<"u","2">>

NoAuthorization == [present |-> FALSE, valid |-> FALSE, user |-> NoUser]
SessionToken == [present |-> TRUE, valid |-> TRUE, user |-> Str_u1]
BadToken == [present |-> TRUE, valid |-> FALSE, user |-> NoUser]
Authorizations == {NoAuthorization, SessionToken, BadToken}

\* `${session.user.id}/${filename}`, another user's file, the file of a
\* user whose id starts with this user's id, and no path.
OwnImage == Str_u1 \o <<"/","r",".","j","p","g">>
OtherImage == Str_u2 \o <<"/","r",".","j","p","g">>
SiblingImage == Str_u1 \o <<"2","/","r",".","j","p","g">>
ImagePaths == {<<>>, OwnImage, OtherImage, SiblingImage}

\* The body of a request: no JSON, or {imagePath} (ocrOnly absent).
Bodies == {[json |-> FALSE, imagePath |-> <<>>, ocrOnly |-> FALSE]}
          \cup {[json |-> TRUE, imagePath |-> p, ocrOnly |-> FALSE] : p \in ImagePaths}

Requests ==
    {[method |-> m, authorization |-> a, body |-> b] :
        m \in {"POST", "OPTIONS", "GET"}, a \in Authorizations, b \in Bodies}

GoodEnv == [supabaseUrl |-> TRUE, serviceRoleKey |-> TRUE, ocrProvider |-> "google",
            googleKey |-> TRUE, ocrspaceKey |-> FALSE]
Envs == { GoodEnv,
          [GoodEnv EXCEPT !.ocrProvider = "ocrspace", !.ocrspaceKey = TRUE],
          [GoodEnv EXCEPT !.serviceRoleKey = FALSE],
          [GoodEnv EXCEPT !.googleKey = FALSE],
          [GoodEnv EXCEPT !.ocrProvider = "ocrspace"],
          [GoodEnv EXCEPT !.ocrProvider = "tesseract"] }

Text_receipt == <<"W","a","l","m","a","r","t","\n","T","o","t","a","l"," ","$","4","5",".","6","7">>
Text_payroll == <<"P","A","Y","R","O","L","L"," ","D","E","P","O","S","I","T"," ","2","0","2","5","-","0","9","-","1","5"," ","+","$","2",",","4","5","0",".","0","0">>
\* What the OCR provider yields: a failure, no text, or a text (the last
\* one with no date, no number and no line of more than two characters).
OcrResults == { [ok |-> FALSE, text |-> <<>>], [ok |-> TRUE, text |-> <<>>],
                [ok |-> TRUE, text |-> Text_receipt],
                [ok |-> TRUE, text |-> Text_payroll],
                [ok |-> TRUE, text |-> <<"*","*"," ","-","-","\n","#","\n","N","o">>] }

Date_0814 == <<"2","0","2","5","-","0","8","-","1","4">>
Date_0915 == <<"2","0","2","5","-","0","9","-","1","5">>
Todays == {<<"2","0","2","5","-","1","0","-","0","1">>}

Str_grocery == <<"g","r","o","c","e","r","y">>
Str_Walmart == <<"W","a","l","m","a","r","t">>

\* A string of SubCategoryMax + ExtraSubLen characters, upper case and lower.
LongSubCategory ==
    SubSeq(Repeat(<<"A","b">>, SubCategoryMax + ExtraSubLen), 1, SubCategoryMax + ExtraSubLen)

\* Example 1 of FEW_SHOTS.
BaseRecord ==
    Obj(JStr(Date_0814), JStr(Str_out), JStr(Str_grocery), JStr(Str_Walmart),
        JNum(4567), JNull)

DateValues ==
    { JStr(Date_0814), JNull, JUndefined, JStr(<<"0","8","/","1","4","/","2","0","2","5">>), JStr(<<"2","0","2","5","-","1","3","-","4","5">>),
      JNum(2025081400), JArr(<<JStr(Date_0814)>>), JStr(<<>>) }
TypeValues == { JStr(Str_out), JStr(Str_in), JStr(Str_credit), JNull, JUndefined }
CategoryValues ==
    { JStr(Str_grocery), JStr(<<"i","n","c","o","m","e">>), JStr(<<"G","r","o","c","e","r","i","e","s">>), JNull, JUndefined }
SubCategoryValues ==
    { JStr(Str_Walmart), JNull, JUndefined, JStr(<<>>), JStr(LongSubCategory), JNum(100) }
AmountValues == { JNum(4567), JNum(0), JNum(-305), JStr(<<"4","5",".","6","7">>), JNull, JUndefined }
NoteValues == { JNull, JStr(<<"c","o","n","v","e","r","s","i","o","n"," ","f","e","e">>), JNum(100), JUndefined }

\* BaseRecord with one field replaced.
OneFieldRecords ==
    {[BaseRecord EXCEPT !.date = v] : v \in DateValues}
    \cup {[BaseRecord EXCEPT !.type = v] : v \in TypeValues}
    \cup {[BaseRecord EXCEPT !.category = v] : v \in CategoryValues \cup {JStr(c) : c \in cats}}
    \cup {[BaseRecord EXCEPT !.sub_category = v] : v \in SubCategoryValues}
    \cup {[BaseRecord EXCEPT !.amount = v] : v \in AmountValues}
    \cup {[BaseRecord EXCEPT !.note = v] : v \in NoteValues}

\* Every combination of the field values.
AllFieldRecords ==
    {Obj(d, ty, c, sc, a, n) :
        d \in DateValues, ty \in TypeValues, c \in CategoryValues,
        sc \in SubCategoryValues, a \in AmountValues, n \in NoteValues}

\* Example 3 of FEW_SHOTS: no date here, no merchant.
IncomeRecord ==
    Obj(JNull, JStr(Str_in), JStr(<<"i","n","c","o","m","e">>), JNull, JNum(245000), JNull)

\* The texts Gemini answers with: the object alone, with commentary before
\* or after it, cut short, with no object at all.
GeminiTexts ==
    {<<TokLb, TokMembers(r), TokRb>> : r \in OneFieldRecords \cup {IncomeRecord}}
    \cup { <<TokText, TokLb, TokMembers(BaseRecord), TokRb>>,
           <<TokLb, TokMembers(BaseRecord), TokRb, TokText>>,
           <<TokWs, TokLb, TokWs, TokMembers(BaseRecord), TokRb, TokWs>>,
           <<TokLb, TokMembers(BaseRecord)>>,
           <<TokLb, TokText, TokRb>>,
           <<TokLb, TokRb>>,
           <<TokText>>,
           <<>> }

GeminiReplies == {GeminiError} \cup {GeminiText(x) : x \in GeminiTexts}

-----------------------------------------------------------------------------
(* State.                                                                  *)

NoCall == [fn |-> "none"]
NoReq == [method |-> "none"]
NoResp == [status |-> 0]
NoData == JNull

PiIdle == [pc |-> "idle", user |-> NoUser, imagePath |-> <<>>, ocr |-> "none",
           ocrText |-> <<>>, legacyParsed |-> NoData, structuredData |-> NoData,
           path |-> "none", waited |-> 0]
SgIdle == [pc |-> "idle", method |-> "none", authorization |-> NoAuthorization,
           ocrText |-> <<>>, gemini |-> GeminiError, resp |-> NoResp]
StateIdle == [uploading |-> FALSE, processing |-> FALSE, error |-> "", success |-> ""]
\* countdown: the state of that name (NoData for null); interval, cleanup:
\* the setInterval and the setTimeout of lines 179-193; ticks: the runs of
\* the interval callback so far; navigations: the ids navigate was called with.
ClientIdle == [pc |-> "idle", elapsed |-> 0, result |-> NoData, countdown |-> NoData,
               interval |-> "none", cleanup |-> "none", ticks |-> 0, navigations |-> <<>>]

\* A Response with a plain-text body.
TextResponse(status, text) ==
    [status |-> status, json |-> FALSE, error |-> text, transaction |-> NoData]
\* A Response with the body {error: ...}.
ErrorResponse(status, error) ==
    [status |-> status, json |-> TRUE, error |-> error, transaction |-> NoData]
\* The Response of lines 204-210.
TransactionResponse(transaction) ==
    [status |-> 200, json |-> TRUE, error |-> "", transaction |-> transaction]

PipelineIdle ==
    /\ req = NoReq
    /\ pi = PiIdle
    /\ sg = SgIdle
    /\ piResp = NoResp
    /\ transactions = {}
    /\ state = StateIdle
    /\ client = ClientIdle

Init ==
    /\ call = NoCall
    /\ today \in Todays
    /\ PipelineIdle

-----------------------------------------------------------------------------
(* UploadPage.handleUpload.                                                *)

\* Lines 87-90: a file is selected and the user is signed in.
HU_Begin ==
    /\ client.pc = "idle"
    /\ req = NoReq
    /\ client' = [client EXCEPT !.pc = "uploading"]
    /\ state' = [state EXCEPT !.uploading = TRUE, !.error = "", !.success = ""]
    /\ UNCHANGED <<call, today, req, pi, sg, piResp, transactions>>

\* Lines 92-119 throwing (no session, no configuration, the storage upload
\* failing), caught at lines 195-207.
HU_UploadFailed ==
    /\ client.pc = "uploading"
    /\ \E message \in {"Authentication required. Please sign in again.",
                       "Upload failed. Please try again."} :
         state' = [state EXCEPT !.uploading = FALSE, !.processing = FALSE,
                                !.error = message]
    /\ client' = [client EXCEPT !.pc = "failed"]
    /\ UNCHANGED <<call, today, req, pi, sg, piResp, transactions>>

\* Lines 121-133: the fetch of process_image, with AbortSignal.timeout.
HU_Fetch ==
    /\ client.pc = "uploading"
    /\ state' = [state EXCEPT !.uploading = FALSE, !.processing = TRUE]
    /\ req' = [method |-> "POST", authorization |-> SessionToken,
               body |-> [json |-> TRUE, imagePath |-> OwnImage, ocrOnly |-> FALSE]]
    /\ client' = [client EXCEPT !.pc = "fetching", !.elapsed = 0]
    /\ UNCHANGED <<call, today, pi, sg, piResp, transactions>>

\* Lines 136-151: the message thrown for a response that is not ok.
ErrorMessage(response) ==
    IF response.json
    THEN (IF response.error # "" THEN response.error ELSE "Processing failed")
    ELSE (IF response.error # "" THEN response.error ELSE "HTTP error")

\* Lines 135-193 and the catch: the response arrives before the abort; on
\* success the countdown is set to 5 and the two timers are started.
HU_Response ==
    /\ client.pc = "fetching"
    /\ client.elapsed < AbortTimeoutMs
    /\ piResp # NoResp
    /\ IF ~ResponseOk(piResp)
       THEN /\ state' = [state EXCEPT !.uploading = FALSE, !.processing = FALSE,
                                      !.error = ErrorMessage(piResp)]
            /\ client' = [client EXCEPT !.pc = "failed"]
       ELSE IF ~piResp.json
       THEN /\ state' = [state EXCEPT !.uploading = FALSE, !.processing = FALSE,
                            !.error = "Invalid response from processing service"]
            /\ client' = [client EXCEPT !.pc = "failed"]
       ELSE /\ state' = [state EXCEPT !.processing = FALSE,
                                      !.success = "Receipt processed successfully!"]
            /\ client' = [client EXCEPT !.pc = "succeeded",
                                        !.result = piResp.transaction,
                                        !.countdown = [k |-> "num", v |-> CountdownFrom],
                                        !.interval = "set", !.cleanup = "pending"]
    /\ UNCHANGED <<call, today, req, pi, sg, piResp, transactions>>

\* AbortSignal.timeout(30000) firing: the fetch rejects with a TimeoutError,
\* caught at lines 195-207.
HU_Timeout ==
    /\ client.pc = "fetching"
    /\ client.elapsed >= AbortTimeoutMs
    /\ state' = [state EXCEPT !.uploading = FALSE, !.processing = FALSE,
                   !.error = "Processing timed out. Please try again with a clearer image."]
    /\ client' = [client EXCEPT !.pc = "failed"]
    /\ UNCHANGED <<call, today, req, pi, sg, piResp, transactions>>

\* The callback of setInterval(..., 1000), lines 179-188.  Its k-th run is
\* due k * 1000 ms after the timers were started; a run due after the
\* setTimeout of line 191 waits for it.
CountdownInterval ==
    /\ client.interval = "set"
    /\ client.cleanup = "pending" => (client.ticks + 1) * IntervalMs <= CleanupMs
    /\ IF client.countdown = NoData \/ client.countdown.v <= 1
       THEN client' = [client EXCEPT !.ticks = @ + 1, !.interval = "cleared",
                          !.navigations = Append(@, client.result.id),
                          !.countdown = NoData]
       ELSE client' = [client EXCEPT !.ticks = @ + 1, !.countdown.v = @ - 1]
    /\ UNCHANGED <<call, today, req, pi, sg, piResp, transactions, state>>

\* The callback of setTimeout(..., 5000), lines 191-193, due 5000 ms after
\* the timers were started: the runs of the interval due before that have
\* taken place.
CleanupTimeout ==
    /\ client.cleanup = "pending"
    /\ (client.ticks + 1) * IntervalMs >= CleanupMs
    /\ client' = [client EXCEPT !.cleanup = "fired",
                                !.interval = IF @ = "set" THEN "cleared" ELSE @]
    /\ UNCHANGED <<call, today, req, pi, sg, piResp, transactions, state>>

\* handleRefreshOcr, lines 221-266: without a selected file the error is
\* shown; the session or the second upload failing is caught at line 287;
\* otherwise process_image is fetched with {imagePath, ocrOnly: true}.
HR_Fetch ==
    /\ client.pc = "idle"
    /\ req = NoReq
    /\ \/ /\ state' = [state EXCEPT !.error = "Please select a new image file to refresh OCR."]
          /\ client' = [client EXCEPT !.pc = "failed"]
          /\ req' = req
       \/ /\ \E message \in {"Authentication required. Please sign in again.",
                              "Failed to refresh OCR. Please try again."} :
                state' = [state EXCEPT !.processing = FALSE, !.error = message, !.success = ""]
          /\ client' = [client EXCEPT !.pc = "failed"]
          /\ req' = req
       \/ /\ state' = [state EXCEPT !.processing = TRUE, !.error = "", !.success = ""]
          /\ req' = [method |-> "POST", authorization |-> SessionToken,
                     body |-> [json |-> TRUE, imagePath |-> OwnImage, ocrOnly |-> TRUE]]
          /\ client' = [client EXCEPT !.pc = "refetching", !.elapsed = 0]
    /\ UNCHANGED <<call, today, pi, sg, piResp, transactions>>

\* Lines 268-293: the response to the refresh arrives before the abort.
HR_Response ==
    /\ client.pc = "refetching"
    /\ client.elapsed < AbortTimeoutMs
    /\ piResp # NoResp
    /\ IF ~ResponseOk(piResp)
       THEN /\ state' = [state EXCEPT !.processing = FALSE,
                            !.error = IF piResp.json /\ piResp.error # ""
                                      THEN piResp.error ELSE "HTTP error"]
            /\ client' = [client EXCEPT !.pc = "failed"]
       ELSE IF ~piResp.json
       THEN /\ state' = [state EXCEPT !.processing = FALSE, !.error = "SyntaxError"]
            /\ client' = [client EXCEPT !.pc = "failed"]
       ELSE /\ state' = [state EXCEPT !.processing = FALSE,
                                      !.success = "OCR refreshed successfully!"]
            /\ client' = [client EXCEPT !.pc = "refreshed"]
    /\ UNCHANGED <<call, today, req, pi, sg, piResp, transactions>>

\* AbortSignal.timeout(30000) of line 265 firing, caught at line 287.
HR_Timeout ==
    /\ client.pc = "refetching"
    /\ client.elapsed >= AbortTimeoutMs
    /\ state' = [state EXCEPT !.processing = FALSE, !.error = "The operation timed out."]
    /\ client' = [client EXCEPT !.pc = "failed"]
    /\ UNCHANGED <<call, today, req, pi, sg, piResp, transactions>>

\* Time passing while the fetch of process_image is pending.
Tick ==
    /\ client.pc \in {"fetching", "refetching"}
    /\ client.elapsed < AbortTimeoutMs
    /\ client' = [client EXCEPT !.elapsed = @ + TickMs]
    /\ pi' = [pi EXCEPT !.waited = IF pi.pc = "structure" THEN @ + TickMs ELSE @]
    /\ UNCHANGED <<call, today, req, sg, piResp, transactions, state>>

\* Any other caller of the process_image endpoint.
DirectRequest ==
    /\ client.pc = "idle"
    /\ req = NoReq
    /\ req' \in Requests
    /\ client' = [client EXCEPT !.pc = "direct"]
    /\ UNCHANGED <<call, today, pi, sg, piResp, transactions, state>>

\* Any caller of the structure_with_gemini endpoint.
SG_DirectRequest ==
    /\ client.pc = "idle"
    /\ req = NoReq
    /\ sg.pc = "idle"
    /\ \E method \in {"POST", "OPTIONS", "GET"}, authorization \in Authorizations,
          ocrText \in {<<>>, Text_receipt} :
         sg' = [sg EXCEPT !.pc = "requested", !.method = method,
                          !.authorization = authorization, !.ocrText = ocrText]
    /\ client' = [client EXCEPT !.pc = "direct"]
    /\ UNCHANGED <<call, today, req, pi, piResp, transactions, state>>

\* A request to the signed_image_url endpoint, answered.
SU_Handle ==
    /\ client.pc = "idle"
    /\ req = NoReq
    /\ call = NoCall
    /\ \E request \in Requests, absent \in BOOLEAN, storageUp \in BOOLEAN :
         /\ absent => Len(request.body.imagePath) = 0
         /\ call' = [fn |-> "signed_image_url", arg |-> request,
                     ret |-> signed_image_url(request, absent, storageUp), done |-> TRUE]
    /\ client' = [client EXCEPT !.pc = "direct"]
    /\ UNCHANGED <<today, req, pi, sg, piResp, transactions, state>>

\* A request to the answer_query endpoint, answered.
AQ_Handle ==
    /\ client.pc = "idle"
    /\ req = NoReq
    /\ call = NoCall
    /\ \E request \in Requests, query \in {"preset", "text", "none"}, understood \in BOOLEAN :
         call' = [fn |-> "answer_query", arg |-> request,
                  ret |-> answer_query(request, query, understood), done |-> TRUE]
    /\ client' = [client EXCEPT !.pc = "direct"]
    /\ UNCHANGED <<today, req, pi, sg, piResp, transactions, state>>

-----------------------------------------------------------------------------
(* process_image, one action per await.                                    *)

\* Lines 17-70: method, environment, Authorization header.
PI_Start ==
    /\ req # NoReq
    /\ pi.pc = "idle"
    /\ \E env \in Envs :
        LET early ==
                IF req.method = "OPTIONS" THEN TextResponse(200, "ok")
                ELSE IF req.method # "POST" THEN TextResponse(405, "Method not allowed")
                ELSE IF EnvStatus(env) # 0
                    THEN ErrorResponse(EnvStatus(env), "Server configuration error")
                ELSE IF ~req.authorization.present
                    THEN TextResponse(401, "Missing Authorization header")
                ELSE NoResp
        IN  /\ piResp' = early
            /\ pi' = [pi EXCEPT !.pc = IF early = NoResp THEN "auth" ELSE "done"]
    /\ UNCHANGED <<call, today, req, sg, transactions, state, client>>

\* Lines 72-107: getUser, the request body, the owner of the image path.
PI_Auth ==
    /\ pi.pc = "auth"
    /\ LET user == getUser(req.authorization)
           imagePath == req.body.imagePath
           early ==
                IF user = NoUser THEN TextResponse(401, "Invalid authorization token")
                ELSE IF ~req.body.json THEN TextResponse(400, "Invalid request body")
                ELSE IF Len(imagePath) = 0 THEN TextResponse(400, "Missing imagePath")
                ELSE IF ~OwnPath(imagePath, user)
                    THEN TextResponse(403, "Unauthorized access to image")
                ELSE NoResp
       IN  /\ piResp' = early
           /\ pi' = [pi EXCEPT !.pc = IF early = NoResp THEN "ocr" ELSE "done",
                               !.user = user, !.imagePath = imagePath]
    /\ UNCHANGED <<call, today, req, sg, transactions, state, client>>

\* Mutant: the OCR step going on with whatever text the provider yields.
PI_OCR_AnyText ==
    /\ pi.pc = "ocr"
    /\ \E provider \in OcrResults :
        IF ~provider.ok
        THEN /\ piResp' = ErrorResponse(500, "Failed to process image")
             /\ pi' = [pi EXCEPT !.pc = "done", !.ocr = "failed"]
             /\ sg' = sg
        ELSE /\ piResp' = piResp
             /\ pi' = [pi EXCEPT !.pc = "structure", !.ocrText = provider.text,
                              !.ocr = IF Len(provider.text) = 0 THEN "empty" ELSE "text"]
             /\ sg' = [sg EXCEPT !.pc = "requested", !.method = "POST",
                              !.authorization = req.authorization,
                              !.ocrText = provider.text]
    /\ UNCHANGED <<call, today, req, transactions, state, client>>

\* Lines 109-139: performOCR, then the fetch of structure_with_gemini.
PI_OCR ==
    /\ pi.pc = "ocr"
    /\ \E provider \in OcrResults :
        LET ocr == performOCR(provider)
            \* what the provider yielded: a failure, no text, a text
            yielded == IF ~provider.ok THEN "failed"
                       ELSE IF Len(provider.text) = 0 THEN "empty" ELSE "text"
        IN  IF ~ocr.ok
            THEN /\ piResp' = ErrorResponse(500, "Failed to process image")
                 /\ pi' = [pi EXCEPT !.pc = "done", !.ocr = yielded]
                 /\ sg' = sg
            ELSE IF Len(ocr.val) = 0
            THEN /\ piResp' = TextResponse(500, "Failed to extract text from image")
                 /\ pi' = [pi EXCEPT !.pc = "done", !.ocr = yielded]
                 /\ sg' = sg
            ELSE /\ piResp' = piResp
                 /\ pi' = [pi EXCEPT !.pc = "structure", !.ocrText = ocr.val,
                                  !.ocr = yielded]
                 /\ sg' = [sg EXCEPT !.pc = "requested", !.method = "POST",
                                  !.authorization = req.authorization,
                                  !.ocrText = ocr.val]
    /\ UNCHANGED <<call, today, req, transactions, state, client>>

\* The fetch of line 132 rejecting (the network failing): the catch of
\* lines 172-178.
PI_FetchRejected ==
    /\ pi.pc = "structure"
    /\ sg.pc \in {"requested", "calling"}
    /\ sg' = [sg EXCEPT !.pc = "lost"]
    /\ pi' = [pi EXCEPT !.pc = "done"]
    /\ piResp' = ErrorResponse(500, "Failed to structure receipt data")
    /\ UNCHANGED <<call, today, req, transactions, state, client>>

\* Mutant: the legacy parser run before the reply is looked at.
StructureStep_EagerLegacy(structureResponse, ocrText, now) ==
    LET Both(legacyParsed) ==
            IF ~ResponseOk(structureResponse)
            THEN [path |-> "legacy", legacyParsed |-> legacyParsed,
                  structuredData |-> LegacyStructuredData(legacyParsed)]
            ELSE IF HasRecord(structureResponse)
            THEN [path |-> "ai", legacyParsed |-> legacyParsed,
                  structuredData |-> AiStructuredData(structureResponse.record, now)]
            ELSE [path |-> "none", legacyParsed |-> NoData, structuredData |-> NoData]
    IN  Both(parseReceiptText(ocrText, now))

\* Lines 141-171, the structure step once structure_with_gemini has
\* replied: the legacy parser for a reply that is not ok, the mapping of the
\* AI record for one that carries a record, nothing otherwise.
StructureStep(structureResponse, ocrText, now) ==
    LET Legacy(legacyParsed) ==
            [path |-> "legacy", legacyParsed |-> legacyParsed,
             structuredData |-> LegacyStructuredData(legacyParsed)]
    IN  IF ~ResponseOk(structureResponse)
        THEN Legacy(parseReceiptText(ocrText, now))
        ELSE IF HasRecord(structureResponse)
        THEN [path |-> "ai", legacyParsed |-> NoData,
              structuredData |-> AiStructuredData(structureResponse.record, now)]
        ELSE [path |-> "none", legacyParsed |-> NoData, structuredData |-> NoData]

\* Lines 141-178: the reply of structure_with_gemini is there.
PI_Structured ==
    /\ pi.pc = "structure"
    /\ sg.pc = "replied"
    /\ LET Taken(step) ==
            IF step.path = "none"
            THEN /\ pi' = [pi EXCEPT !.pc = "done"]
                 /\ piResp' = ErrorResponse(500, "Failed to structure receipt data")
            ELSE /\ pi' = [pi EXCEPT !.pc = "insert", !.path = step.path,
                              !.legacyParsed = step.legacyParsed,
                              !.structuredData = step.structuredData]
                 /\ piResp' = piResp
       IN  Taken(StructureStep(sg.resp, pi.ocrText, today))
    /\ UNCHANGED <<call, today, req, sg, transactions, state, client>>

\* Lines 180-210: the insert and the response.
PI_Insert ==
    /\ pi.pc = "insert"
    /\ \E dbUp \in BOOLEAN :
        LET row == InsertRow(pi.user, pi.structuredData, pi.imagePath)
            transaction == [id |-> Cardinality(transactions) + 1, row |-> row]
        IN  IF dbUp /\ InsertAccepted(row)
            THEN /\ transactions' = transactions \cup {transaction}
                 /\ piResp' = TransactionResponse(transaction)
            ELSE /\ transactions' = transactions
                 /\ piResp' = ErrorResponse(500, "Failed to save transaction")
    /\ pi' = [pi EXCEPT !.pc = "done"]
    /\ UNCHANGED <<call, today, req, sg, state, client>>

-----------------------------------------------------------------------------
(* structure_with_gemini.                                                  *)

\* The platform answering for the function (not deployed, failing to boot,
\* over its time limit): a reply that is not 2xx.
SG_Unavailable ==
    /\ sg.pc = "requested"
    /\ sg' = [sg EXCEPT !.pc = "replied",
                        !.resp = [status |-> 503, ok |-> FALSE, error |-> "unavailable"]]
    /\ UNCHANGED <<call, today, req, pi, piResp, transactions, state, client>>

\* Lines 119-154: method, Authorization header, body; then the call of Gemini.
SG_Handle ==
    /\ sg.pc = "requested"
    /\ IF sg.method = "OPTIONS"
       THEN sg' = [sg EXCEPT !.pc = "replied",
                     !.resp = [status |-> 200, ok |-> FALSE, error |-> "ok"]]
       ELSE IF sg.method # "POST"
       THEN sg' = [sg EXCEPT !.pc = "replied",
                     !.resp = [status |-> 405, ok |-> FALSE, error |-> "Method not allowed"]]
       ELSE IF ~sg.authorization.present
       THEN sg' = [sg EXCEPT !.pc = "replied",
                     !.resp = [status |-> 401, ok |-> FALSE,
                               error |-> "Missing Authorization header"]]
       ELSE IF Len(sg.ocrText) = 0
       THEN sg' = [sg EXCEPT !.pc = "replied",
                     !.resp = [status |-> 400, ok |-> FALSE,
                               error |-> "ocrText required as string"]]
       ELSE sg' = [sg EXCEPT !.pc = "calling"]
    /\ UNCHANGED <<call, today, req, pi, piResp, transactions, state, client>>

\* Lines 154-171: Gemini answers and the handler returns its Response.
SG_GeminiReplied ==
    /\ sg.pc = "calling"
    /\ \E gemini \in GeminiReplies :
        sg' = [sg EXCEPT !.pc = "replied", !.gemini = gemini,
                         !.resp = StructureResponse(gemini)]
    /\ UNCHANGED <<call, today, req, pi, piResp, transactions, state, client>>

-----------------------------------------------------------------------------

Next ==
    \/ HU_Begin
    \/ HU_UploadFailed
    \/ HU_Fetch
    \/ HU_Response
    \/ HU_Timeout
    \/ CountdownInterval
    \/ CleanupTimeout
    \/ HR_Fetch
    \/ HR_Response
    \/ HR_Timeout
    \/ Tick
    \/ DirectRequest
    \/ SG_DirectRequest
    \/ SU_Handle
    \/ AQ_Handle
    \/ PI_Start
    \/ PI_Auth
    \/ PI_OCR
    \/ PI_FetchRejected
    \/ PI_Structured
    \/ PI_Insert
    \/ SG_Unavailable
    \/ SG_Handle
    \/ SG_GeminiReplied

Spec == Init /\ [][Next]_vars

\* The timers of the page fire when they are due.
SpecTimers == Spec /\ WF_vars(CountdownInterval) /\ WF_vars(CleanupTimeout)

-----------------------------------------------------------------------------
(* validate and extractJson on their own.                                  *)

\* The values validate is applied to: the objects of the field values, and
\* values that are no objects.
ValidateInputs ==
    AllFieldRecords \cup OneFieldRecords
    \cup {EmptyObject, JNull, JNum(0), JNum(100), JStr(Str_in), JArr(<<>>)}

InitValidate ==
    /\ call \in {[fn |-> "validate", arg |-> r, ret |-> NoData, done |-> FALSE] :
                    r \in ValidateInputs}
    /\ today \in Todays
    /\ PipelineIdle

ValidateCall ==
    /\ call.fn = "validate"
    /\ ~call.done
    /\ call' = [call EXCEPT !.ret = validate(call.arg), !.done = TRUE]
    /\ UNCHANGED <<today, req, pi, sg, piResp, transactions, state, client>>

SpecValidate == InitValidate /\ [][ValidateCall]_vars

\* Each record of the example set, the empty object.
TokenAlphabet ==
    {TokWs, TokText, TokLb, TokRb, TokMembers(BaseRecord), TokMembers(IncomeRecord)}

\* Every text of at most MaxTextLen tokens.
TokenTexts == UNION {[1..n -> TokenAlphabet] : n \in 0..MaxTextLen}

InitExtractJson ==
    /\ call \in {[fn |-> "extractJson", arg |-> x, ret |-> NoData, done |-> FALSE] :
                    x \in TokenTexts}
    /\ today \in Todays
    /\ PipelineIdle

\* extractJson(resp) on the text callGemini returns (line 85: text.trim()).
ExtractJsonCall ==
    /\ call.fn = "extractJson"
    /\ ~call.done
    /\ call' = [call EXCEPT !.ret = extractJson(callGemini(GeminiText(call.arg)).val),
                            !.done = TRUE]
    /\ UNCHANGED <<today, req, pi, sg, piResp, transactions, state, client>>

SpecExtractJson == InitExtractJson /\ [][ExtractJsonCall]_vars

-----------------------------------------------------------------------------
(* The legacy parser, the categorizer and the structure step on their own. *)

\* Descriptions: one word, two words with a space between them, and the
\* third example; the words are keywords of several categories, keywords
\* inside longer words and words that are no keyword.
Descriptions ==
    LET DescriptionWords ==
            { <<"S","t","a","r","b","u","c","k","s">>,
              <<"C","o","f","f","e","e">>,
              <<"P","a","y","r","o","l","l">>,
              <<"D","e","p","o","s","i","t">>,
              <<"U","n","k","n","o","w","n">>,
              <<"S","t","o","r","e">>,
              <<"X","Y","Z">>,
              <<"W","a","l","m","a","r","t">>,
              <<"U","b","e","r","E","a","t","s">>,
              <<"U","b","e","r">>,
              <<"M","e","t","r","o">>,
              <<"P","a","s","s">>,
              <<"G","a","s">>,
              <<"B","i","l","l">>,
              <<"R","E","F","U","N","D">>,
              <<"P","a","r","e","n","t">>,
              <<"B","a","r","b","e","r">>,
              <<"N","e","t","f","l","i","x">>,
              <<"A","m","a","z","o","n">>,
              <<"P","h","a","r","m","a","c","y">>,
              <<"I","n","t","e","r","e","s","t">> }
    IN  DescriptionWords \cup {a \o <<" ">> \o b : a, b \in DescriptionWords}
        \cup { <<"U","n","k","n","o","w","n"," ","S","t","o","r","e"," ","X","Y","Z">> }

\* Date lines of receipts in the formats of datePatterns, each with the
\* calendar date it writes: weekday, month name, day, year; month name, day,
\* year; day, month, year and year, month, day in figures with "/", "-" or
\* "."; day, month name, year.
DateLines ==
    { [line |-> <<"F","r","i",","," ","S","e","p"," ","1","9",","," ","2","0","2","5">>,
       written |-> <<"2","0","2","5","-","0","9","-","1","9">>],
      [line |-> <<"S","e","p"," ","1","9",","," ","2","0","2","5">>,
       written |-> <<"2","0","2","5","-","0","9","-","1","9">>],
      [line |-> <<"S","e","p"," ","5"," ","2","0","2","5">>,
       written |-> <<"2","0","2","5","-","0","9","-","0","5">>],
      [line |-> <<"1","9","/","0","9","/","2","0","2","5">>,
       written |-> <<"2","0","2","5","-","0","9","-","1","9">>],
      [line |-> <<"0","5",".","0","9",".","2","0","2","5">>,
       written |-> <<"2","0","2","5","-","0","9","-","0","5">>],
      [line |-> <<"1","9","-","0","9","-","2","0","2","5">>,
       written |-> <<"2","0","2","5","-","0","9","-","1","9">>],
      [line |-> <<"2","0","2","5","-","0","9","-","1","9">>,
       written |-> <<"2","0","2","5","-","0","9","-","1","9">>],
      [line |-> <<"2","0","2","5","/","9","/","5">>,
       written |-> <<"2","0","2","5","-","0","9","-","0","5">>],
      [line |-> <<"2","0","2","5",".","0","9",".","1","9">>,
       written |-> <<"2","0","2","5","-","0","9","-","1","9">>],
      [line |-> <<"1","9"," ","S","e","p"," ","2","0","2","5">>,
       written |-> <<"2","0","2","5","-","0","9","-","1","9">>],
      [line |-> <<"5"," ","S","e","p","t","e","m","b","e","r"," ","2","0","2","5">>,
       written |-> <<"2","0","2","5","-","0","9","-","0","5">>] }

\* The texts the parser is given: none, one line, or two.  The lines are
\* merchant lines (a known name alone, first, in the middle, inside a longer
\* word; other names; lines the candidate filter refuses), amount lines
\* (with and without a currency symbol, "total", a thousands separator, four
\* figures in a row) and the date lines.
ReceiptTexts ==
    LET ReceiptLines ==
            { <<"T","a","r","g","e","t">>,
              <<"W","a","l","m","a","r","t"," ","S","u","p","e","r","c","e","n","t","e","r">>,
              <<"V","i","s","i","t"," ","W","a","l","m","a","r","t"," ","t","o","d","a","y">>,
              <<"P","i","n","e","a","p","p","l","e"," ","E","x","p","r","e","s","s">>,
              <<"C","o","r","n","e","r"," ","S","h","o","p">>,
              <<"J","o","e","s">>,
              <<"B","o","b","s">>,
              <<"T","r","a","n","s","a","c","t","i","o","n"," ","d","e","t","a","i","l","s">>,
              <<"N","o">>,
              <<"-","-">>,
              <<"T","o","t","a","l"," ","$","4","5",".","6","7">>,
              <<"T","o","t","a","l"," ","4","5",".","6","7">>,
              <<"C","a","s","h"," ","$","5","0",".","0","0">>,
              <<"$","1","2","3","4",".","5","6">>,
              <<"€","1",",","2","3","4",".","5","6">>,
              <<"S","u","b","t","o","t","a","l"," ","$","1","2",".","0","0">>,
              <<"I","t","e","m","s"," ","3">>,
              <<"T","o","t","a","l"," ","0">>,
              <<"B","a","l","a","n","c","e"," ","1","2",".","5">>,
              <<"R","e","f"," ","1","2","3","4","5","6">>,
              <<"A","M","O","U","N","T"," ","D","U","E">>,
              <<"R","E","F","U","N","D"," ","$","5",".","0","0">>,
              \* a line of 50 characters
              <<"T","h","a","n","k"," ","y","o","u"," ","f","o","r"," ","s","h","o","p","p","i","n","g"," ","a","t"," ","o","u","r"," ","s","t","o","r","e",","," ","s","e","e"," ","y","o","u"," ","a","g","a","i","n">> }
            \cup {d.line : d \in DateLines}
    IN  {<<>>} \cup ReceiptLines \cup {a \o <<"\n">> \o b : a, b \in ReceiptLines}

InitLegacy ==
    /\ call \in
          {[fn |-> "categorizeTransaction", arg |-> [description |-> d, type |-> ty],
            ret |-> NoData, done |-> FALSE] :
              d \in Descriptions, ty \in {Str_debit, Str_credit}}
          \cup {[fn |-> fn, arg |-> text, ret |-> NoData, done |-> FALSE] :
                  fn \in {"extractDate", "extractAmount", "extractMerchant",
                          "parseReceiptText"},
                  text \in ReceiptTexts}
          \cup {[fn |-> "process_image",
                  arg |-> [ocrText |-> ocr.text, structureResponse |-> resp],
                  ret |-> <<>>, done |-> FALSE] :
                  ocr \in {r \in OcrResults : r.ok /\ r.text # <<>>},
                  resp \in {StructureResponse(gemini) : gemini \in GeminiReplies}}
    /\ today \in Todays
    /\ PipelineIdle

CategorizeCall ==
    /\ call.fn = "categorizeTransaction"
    /\ ~call.done
    /\ call' = [call EXCEPT !.ret = categorizeTransaction(call.arg.description, call.arg.type),
                            !.done = TRUE]
    /\ UNCHANGED <<today, req, pi, sg, piResp, transactions, state, client>>

ExtractDateCall ==
    /\ call.fn = "extractDate"
    /\ ~call.done
    /\ call' = [call EXCEPT !.ret = extractDate(call.arg, today), !.done = TRUE]
    /\ UNCHANGED <<today, req, pi, sg, piResp, transactions, state, client>>

ExtractAmountCall ==
    /\ call.fn = "extractAmount"
    /\ ~call.done
    /\ call' = [call EXCEPT !.ret = extractAmount(call.arg, SplitLines(call.arg)),
                            !.done = TRUE]
    /\ UNCHANGED <<today, req, pi, sg, piResp, transactions, state, client>>

ExtractMerchantCall ==
    /\ call.fn = "extractMerchant"
    /\ ~call.done
    /\ call' = [call EXCEPT !.ret = extractMerchant(SplitLines(call.arg)), !.done = TRUE]
    /\ UNCHANGED <<today, req, pi, sg, piResp, transactions, state, client>>

ParseReceiptCall ==
    /\ call.fn = "parseReceiptText"
    /\ ~call.done
    /\ call' = [call EXCEPT !.ret = parseReceiptText(call.arg, today), !.done = TRUE]
    /\ UNCHANGED <<today, req, pi, sg, piResp, transactions, state, client>>

\* The structure step of process_image, run twice on the same OCR text with
\* the same reply of structure_with_gemini; each run is kept with its day.
StructureCall ==
    /\ call.fn = "process_image"
    /\ ~call.done
    /\ call' = [call EXCEPT
                    !.ret = Append(@, [day |-> today,
                                       data |-> StructureStep(call.arg.structureResponse,
                                                              call.arg.ocrText,
                                                              today).structuredData]),
                    !.done = Len(call.ret) = 1]
    /\ UNCHANGED <<today, req, pi, sg, piResp, transactions, state, client>>

\* Midnight (UTC) passes between the two runs: new Date() is the next day.
Midnight ==
    /\ call.fn = "process_image"
    /\ Len(call.ret) = 1
    /\ today \in Todays
    /\ LET year == DigitsVal(SubSeq(today, 1, 4))
           month == DigitsVal(SubSeq(today, 6, 7))
           day == DigitsVal(SubSeq(today, 9, 10))
       IN  today' = IF day < DaysInMonth(year, month)
                    THEN SubSeq(today, 1, 8) \o Pad2(day + 1)
                    ELSE IF month < 12
                    THEN SubSeq(today, 1, 5) \o Pad2(month + 1) \o <<"-","0","1">>
                    ELSE Pad2((year + 1) \div 100) \o Pad2((year + 1) % 100)
                            \o <<"-","0","1","-","0","1">>
    /\ UNCHANGED <<call, req, pi, sg, piResp, transactions, state, client>>

NextLegacy ==
    \/ CategorizeCall
    \/ StructureCall
    \/ Midnight
    \/ ExtractDateCall
    \/ ExtractAmountCall
    \/ ExtractMerchantCall
    \/ ParseReceiptCall

SpecLegacy == InitLegacy /\ [][NextLegacy]_vars


-----------------------------------------------------------------------------
(* src/utils/dateUtils.ts: the calendar helpers of the pages.  A Date is   *)
(* the record of what getFullYear, getMonth, getDate and getDay read from  *)
(* it in the local time zone.                                              *)

\* s.split('-').map(Number) on digits and hyphens: the numbers between the
\* hyphens (Number of an empty piece is 0).
SplitNumbers(s) ==
    LET RECURSIVE Pieces(_, _)
        Pieces(i, piece) ==
            IF i > Len(s) THEN <<DigitsVal(piece)>>
            ELSE IF s[i] = "-" THEN <<DigitsVal(piece)>> \o Pieces(i + 1, <<>>)
            ELSE Pieces(i + 1, Append(piece, s[i]))
    IN  Pieces(1, <<>>)

\* Date.prototype.getDay of a day of the calendar: 0 is Sunday.
getDay(year, month, date) ==
    LET Zeller(y, m) == (date + ((13 * (m + 1)) \div 5) + (y % 100) + ((y % 100) \div 4)
                            + ((y \div 100) \div 4) + 5 * (y \div 100)) % 7
    IN  ((IF month < 3 THEN Zeller(year - 1, month + 12) ELSE Zeller(year, month)) + 6) % 7

RECURSIVE MakeDay(_, _, _)
\* MakeDay of ECMAScript for a year and a month of 1..12: a day before the
\* first or past the last of the month is counted into the neighbouring months.
MakeDay(year, month, day) ==
    IF day < 1
    THEN IF month = 1 THEN MakeDay(year - 1, 12, day + 31)
         ELSE MakeDay(year, month - 1, day + DaysInMonth(year, month - 1))
    ELSE IF day > DaysInMonth(year, month)
    THEN IF month = 12 THEN MakeDay(year + 1, 1, day - 31)
         ELSE MakeDay(year, month + 1, day - DaysInMonth(year, month))
    ELSE [year |-> year, month |-> month - 1, date |-> day, day |-> getDay(year, month, day)]

\* new Date(year, month, day): a year of 0..99 is 1900 + year, a month
\* outside 0..11 is counted into the neighbouring years.
NewDate(year, month, day) ==
    MakeDay((IF year \in 0..99 THEN 1900 + year ELSE year) + (month \div 12), (month % 12) + 1, day)

\* getLocalDateString(date)
getLocalDateString(date) ==
    NatToString(date.year) \o <<"-">> \o Pad2(date.month + 1) \o <<"-">> \o Pad2(date.date)

\* parseLocalDate(dateStr)
parseLocalDate(dateStr) ==
    LET Local(parts) == NewDate(parts[1], parts[2] - 1, parts[3])
    IN  Local(SplitNumbers(dateStr))

\* getStartOfMonth(year, month)
getStartOfMonth(year, month) ==
    NatToString(year) \o <<"-">> \o Pad2(month + 1) \o <<"-", "0", "1">>

\* getEndOfMonth(year, month)
getEndOfMonth(year, month) ==
    NatToString(year) \o <<"-">> \o Pad2(month + 1) \o <<"-">> \o Pad2(NewDate(year, month + 1, 0).date)

\* getMonthGrid(year, month): the dateStr of the cells, in order.
getMonthGrid(year, month) ==
    LET Cell(date) == [dateStr |-> getLocalDateString(date), isCurrentMonth |-> FALSE]
        Own(cell) == [cell EXCEPT !.isCurrentMonth = TRUE]
        Leading(leadingDays) ==
            [k \in 1..leadingDays |-> Cell(NewDate(year, month, 1 - (leadingDays + 1 - k)))]
        Days(daysInMonth) == [day \in 1..daysInMonth |-> Own(Cell(NewDate(year, month, day)))]
        Rest(grid) == grid \o [i \in 1..(42 - Len(grid)) |-> Cell(NewDate(year, month + 1, i))]
        Grid(firstDayOfWeek, daysInMonth) ==
            Rest(Leading(IF firstDayOfWeek = 0 THEN 6 ELSE firstDayOfWeek - 1) \o Days(daysInMonth))
    IN  Grid(NewDate(year, month, 1).day, NewDate(year, month + 1, 0).date)

\* CalendarPage.fetchTransactions: the bounds of the query for the month
\* currentDate lies in.
fetchTransactions(currentDate) ==
    [prevMonthStart |-> getStartOfMonth(currentDate.year, currentDate.month - 1),
     nextMonthEnd |-> getEndOfMonth(currentDate.year, currentDate.month + 1)]

\* The years of the date strings the pages hand to parseLocalDate, and the
\* years the calendar is turned to.
DateYears == {50, 950, 1900, 1999, 2000, 2024, 2025}
CalendarYears == {2024, 2025}

\* YYYY-MM-DD for a day of the calendar
DateString(year, month, day) ==
    Pad2(year \div 100) \o Pad2(year % 100) \o <<"-">> \o Pad2(month) \o <<"-">> \o Pad2(day)

InitDates ==
    /\ call \in
          {[fn |-> "parseLocalDate", arg |-> DateString(y, m, d), ret |-> NoData, done |-> FALSE] :
              y \in DateYears, m \in 1..12, d \in 1..31}
          \cup {[fn |-> "fetchTransactions", arg |-> NewDate(y, m, 1), ret |-> NoData,
                  done |-> FALSE] : y \in CalendarYears, m \in 0..11}
    /\ call.fn = "parseLocalDate" => IsCalendarDate(call.arg)
    /\ today \in Todays
    /\ PipelineIdle

\* testDatePreservation, lines 14-15: the date string is parsed and written again.
ParseLocalDateCall ==
    /\ call.fn = "parseLocalDate"
    /\ ~call.done
    /\ call' = [call EXCEPT !.ret = [date |-> parseLocalDate(call.arg),
                                     result |-> getLocalDateString(parseLocalDate(call.arg))],
                            !.done = TRUE]
    /\ UNCHANGED <<today, req, pi, sg, piResp, transactions, state, client>>

\* The calendar page turned to a month: the bounds of its query, and the
\* cells it draws.
FetchTransactionsCall ==
    /\ call.fn = "fetchTransactions"
    /\ ~call.done
    /\ call' = [call EXCEPT !.ret = [bounds |-> fetchTransactions(call.arg),
                                     monthGrid |-> getMonthGrid(call.arg.year, call.arg.month)],
                            !.done = TRUE]
    /\ UNCHANGED <<today, req, pi, sg, piResp, transactions, state, client>>

NextDates ==
    \/ ParseLocalDateCall
    \/ FetchTransactionsCall

SpecDates == InitDates /\ [][NextDates]_vars


-----------------------------------------------------------------------------
(* What the claims speak of.                                               *)

\* A string of the form YYYY-MM-DD.
IsDateString(x) == x.k = "str" /\ MatchesDateRegex(x.v)

\* A record of the StructuredRecord schema.
WellFormedRecord(r) ==
    /\ r.k = "obj"
    /\ r.type \in {JStr(Str_in), JStr(Str_out)}
    /\ r.category.k = "str" /\ r.category.v \in cats
    /\ r.amount.k = "num" /\ r.amount.v >= 0
    /\ r.date = JNull \/ IsDateString(r.date)
    /\ r.sub_category.k \in {"null", "str"}
    /\ r.note.k \in {"null", "str"}

\* The text without its white space.
WithoutWs(text) ==
    LET NotWs(x) == x # TokWs IN SelectSeq(text, NotWs)

\* The text holds "{", the members of a well-formed record, "}".
HoldsWellFormedObject(text) ==
    LET x == WithoutWs(text)
    IN  \E i \in 2..(Len(x) - 1) :
            /\ x[i].t = "members"
            /\ x[i - 1] = TokLb
            /\ x[i + 1] = TokRb
            /\ WellFormedRecord(x[i].obj)

\* A CanonicalTransaction.
IsCanonical(d) ==
    /\ d # NoData
    /\ IsDateString(d.date)
    /\ d.description.k = "str"
    /\ d.amount.k = "num" /\ d.amount.v >= 0
    /\ d.type \in {JStr(Str_debit), JStr(Str_credit)}
    /\ d.category.k = "str"
    /\ d.notes.k \in {"null", "str"}

\* The structure step of process_image is over.
StructureStepOver == pi.pc \in {"insert", "done"} /\ sg.pc \in {"replied", "lost"}

\* Gemini answered with a text (and structure_with_gemini replied from it).
GeminiAnswered == sg.pc = "replied" /\ sg.gemini.ok

TimeoutMessage == "Processing timed out. Please try again with a clearer image."

\* C1: whenever Gemini returns a malformed response, process_image builds no
\* transaction from it and returns no error because of it: the structure
\* step ends on the legacy path with a canonical transaction.
C1_MalformedFallsBack ==
    (StructureStepOver /\ GeminiAnswered /\ ~HoldsWellFormedObject(sg.gemini.text))
        => (pi.path = "legacy" /\ IsCanonical(pi.structuredData))

\* C2: every failure of the Try-AI step (the fetch throwing, a reply that is
\* not 2xx, a 2xx reply without ok and a record) ends the structure step on
\* the legacy path with a canonical transaction, never with an error.
C2_EveryFailureFallsBack ==
    (StructureStepOver
        /\ ~(sg.pc = "replied" /\ ResponseOk(sg.resp) /\ HasRecord(sg.resp)))
        => (pi.path = "legacy" /\ IsCanonical(pi.structuredData))

\* C3: a wait for the AI extractor that lasts the whole timeout ends in the
\* legacy fallback, not in a timeout at the caller.
C3_TimeoutFallsBack ==
    (pi.waited >= AbortTimeoutMs /\ state.error = TimeoutMessage)
        => pi.path = "legacy"

\* C4: once an upload cycle is over, a transaction row is stored if and only
\* if the caller holds that transaction as its success; a caller that ended
\* with a failure has no row stored.
C4_OutcomeAgreesWithStore ==
    (client.pc \in {"succeeded", "failed"} /\ pi.pc \in {"idle", "done"})
        => /\ (transactions # {}) <=> (client.pc = "succeeded")
           /\ client.pc = "succeeded" => transactions = {client.result}

\* The acceptance condition of C5, field by field.
AcceptedByContract(r) ==
    /\ r.k = "obj"
    /\ r.type = JStr(Str_in) \/ r.type = JStr(Str_out)
    /\ \E c \in cats : r.category = JStr(c)
    /\ r.amount.k = "num" /\ r.amount.v >= 0
    /\ r.date.k = "null" \/ MatchesDateRegex(ToStr(r.date))
    /\ r.sub_category.k = "null" \/ r.sub_category.k = "str"
    /\ r.note.k = "null" \/ r.note.k = "str"

C6_AiAmountPositive ==
    /\ (sg.pc = "replied" /\ ResponseOk(sg.resp) /\ HasRecord(sg.resp))
            => sg.resp.record.amount.v > 0
    /\ pi.path = "ai" => \A x \in transactions : x.row.amount.v > 0

\* The text is one object with commentary (text, white space; no brace)
\* before it, after it, or both.
IsCommentary(x) == \A i \in 1..Len(x) : x[i] \in {TokWs, TokText}
ObjectIn(text) ==
    CHOOSE i \in 1..Len(text) : text[i].t = "members"
IsObjectWithCommentary(text) ==
    /\ \E i \in 2..(Len(text) - 1) :
        /\ text[i].t = "members"
        /\ text[i - 1] = TokLb
        /\ text[i + 1] = TokRb
        /\ IsCommentary(SubSeq(text, 1, i - 2))
        /\ IsCommentary(SubSeq(text, i + 2, Len(text)))

\* C7: extractJson parses the substring from the first "{" to the last "}",
\* so that one object with commentary before it, after it, or both is parsed
\* to that object.
C7_ExtractJsonToleratesCommentary ==
    (call.fn = "extractJson" /\ call.done /\ IsObjectWithCommentary(call.arg))
        => call.ret = Ok(call.arg[ObjectIn(call.arg)].obj)

\* The validated record the AI path maps.
AiRecord == sg.resp.record

\* C8: on the AI path type is 'credit' exactly for 'in' and 'debit' exactly
\* for 'out', category and amount are the record's, date is the record's
\* date, or today when that is null; on the legacy path type, amount and
\* date are the parser's and category is the categorizer's.
C8_FieldMapping ==
    /\ pi.path = "ai" =>
        /\ (pi.structuredData.type = JStr(Str_credit)) <=> (AiRecord.type = JStr(Str_in))
        /\ (pi.structuredData.type = JStr(Str_debit)) <=> (AiRecord.type = JStr(Str_out))
        /\ pi.structuredData.category = AiRecord.category
        /\ pi.structuredData.amount = AiRecord.amount
        /\ pi.structuredData.date =
                (IF AiRecord.date = JNull THEN JStr(today) ELSE AiRecord.date)
    /\ pi.path = "legacy" =>
        /\ pi.structuredData.type = JStr(pi.legacyParsed.type)
        /\ pi.structuredData.amount = JNum(pi.legacyParsed.amount)
        /\ pi.structuredData.date = JStr(pi.legacyParsed.date)
        /\ pi.structuredData.category =
                JStr(categorizeTransaction(pi.legacyParsed.description,
                                           pi.legacyParsed.type))

\* An AI record of type 'in' without a date was mapped and stored.
C8_Witness ==
    /\ pi.path = "ai"
    /\ AiRecord.type = JStr(Str_in)
    /\ AiRecord.date = JNull
    /\ pi.structuredData.date = JStr(today)
    /\ transactions # {}

LowerCut(s) ==
    [i \in 1..(IF Len(s) < SubCategoryMax THEN Len(s) ELSE SubCategoryMax) |->
        toLowerChar(s[i])]

\* C10: a record accepted with a string sub_category comes back with that
\* string lower-cased and cut to 60 characters; a null one stays null.
C10_SubCategoryNormalized ==
    (call.fn = "validate" /\ call.done /\ call.ret.ok) =>
        /\ call.arg.sub_category.k = "str" =>
            /\ call.ret.val.sub_category = JStr(LowerCut(call.arg.sub_category.v))
            /\ Len(call.ret.val.sub_category.v) <= SubCategoryMax
        /\ call.arg.sub_category = JNull => call.ret.val.sub_category = JNull

\* An over-long sub_category with capitals was accepted and cut.
C10_Witness ==
    /\ call.fn = "validate" /\ call.done /\ call.ret.ok
    /\ call.arg.sub_category.k = "str"
    /\ Len(call.arg.sub_category.v) > SubCategoryMax
    /\ Len(call.ret.val.sub_category.v) = SubCategoryMax
    /\ call.ret.val.sub_category.v # SubSeq(call.arg.sub_category.v, 1, SubCategoryMax)

\* The table order the categories are tried in.
CategoryOrder ==
    << <<"D","i","n","i","n","g">>,
       <<"G","r","o","c","e","r","i","e","s">>,
       <<"T","r","a","n","s","p","o","r","t">>,
       <<"U","t","i","l","i","t","i","e","s">>,
       <<"R","e","n","t">>,
       <<"I","n","c","o","m","e">>,
       <<"S","h","o","p","p","i","n","g">>,
       <<"H","e","a","l","t","h","c","a","r","e">>,
       <<"E","n","t","e","r","t","a","i","n","m","e","n","t">> >>

\* The keywords declared for a category.
KeywordsOf(category) ==
    LET e == CHOOSE e \in {CATEGORY_KEYWORDS[i] : i \in 1..Len(CATEGORY_KEYWORDS)} :
                 e.category = category
    IN  {e.keywords[j] : j \in 1..Len(e.keywords)}

\* The category has a keyword that is a substring of the lower-cased
\* description.
Mentions(description, category) ==
    \E kw \in KeywordsOf(category) :
        \E i \in 1..Len(description) :
            /\ i + Len(kw) - 1 <= Len(description)
            /\ \A j \in 1..Len(kw) : toLowerChar(description[i + j - 1]) = kw[j]

RECURSIVE FirstInOrder(_, _, _)
\* The first category from position n of the order on that is mentioned,
\* Income left out for a debit.
FirstInOrder(description, type, n) ==
    IF n > Len(CategoryOrder) THEN Str_Uncategorized
    ELSE IF /\ ~(CategoryOrder[n] = Str_Income /\ type = Str_debit)
            /\ Mentions(description, CategoryOrder[n])
    THEN CategoryOrder[n]
    ELSE FirstInOrder(description, type, n + 1)

\* The reference of C11.
CategoryByReference(description, type) ==
    IF type = Str_credit /\ Mentions(description, Str_Income) THEN Str_Income
    ELSE FirstInOrder(description, type, 1)

\* C11: categorizeTransaction equals the reference: 'Income' for a credit
\* whose description has an Income keyword, else the first category in table
\* order with a keyword in the description (Income left out for a debit),
\* else 'Uncategorized'; the three examples give Income, Dining and
\* Uncategorized; a debit is never 'Income'.
C11_CategorizerMatchesReference ==
    (call.fn = "categorizeTransaction" /\ call.done) =>
        /\ call.ret = CategoryByReference(call.arg.description, call.arg.type)
        /\ call.arg = [description |-> <<"P","a","y","r","o","l","l"," ","D","e","p","o","s","i","t">>, type |-> Str_credit]
                => call.ret = Str_Income
        /\ call.arg = [description |-> <<"S","t","a","r","b","u","c","k","s"," ","C","o","f","f","e","e">>, type |-> Str_debit]
                => call.ret = <<"D","i","n","i","n","g">>
        /\ call.arg = [description |-> <<"U","n","k","n","o","w","n"," ","S","t","o","r","e"," ","X","Y","Z">>, type |-> Str_debit]
                => call.ret = Str_Uncategorized
        /\ call.arg.type = Str_debit => call.ret # Str_Income

\* A credit with a Dining keyword and an Income keyword was categorized.
C11_Witness ==
    /\ call.fn = "categorizeTransaction" /\ call.done
    /\ call.arg = [description |-> <<"S","t","a","r","b","u","c","k","s"," ","R","E","F","U","N","D">>, type |-> Str_credit]
    /\ call.ret = Str_Income

\* The dates written in the text.
DatesWritten(text) == {d.written : d \in {x \in DateLines : Includes(text, x.line)}}

\* C12: extractDate returns the calendar date written on the receipt, as
\* YYYY-MM-DD, for a date in any of the supported formats, and the current
\* processing date for a text that holds no date.
C12_DateAsWritten ==
    (call.fn = "extractDate" /\ call.done) =>
        /\ DatesWritten(call.arg) = {} => call.ret = today
        /\ Cardinality(DatesWritten(call.arg)) = 1 => call.ret \in DatesWritten(call.arg)

\* The numbers the text writes from the positions of starts on: figures and
\* thousands separators, then a decimal point and figures if there are any.
NumbersWrittenFrom(text, starts) ==
    {parseFloat(Without(SubSeq(text, i, j), {","})) :
        <<i, j>> \in {<<i, j>> \in starts \X (1..Len(text)) :
            /\ i <= j
            /\ text[i] \in Digits
            /\ \E k \in i..j :
                /\ \A q \in i..k : text[q] \in Digits \cup {","}
                /\ k = Len(text) \/ text[k + 1] \notin Digits \cup {","}
                /\ IF k + 2 <= Len(text) /\ text[k + 1] = "." /\ text[k + 2] \in Digits
                   THEN /\ j > k + 1
                        /\ \A q \in (k + 2)..j : text[q] \in Digits
                        /\ j = Len(text) \/ text[j + 1] \notin Digits
                   ELSE j = k}}

\* The numbers the text writes after a currency symbol.
CurrencyNumbersWritten(text) ==
    NumbersWrittenFrom(text, {i \in 2..Len(text) : text[i - 1] \in CurrencySymbols})

\* The numbers the text writes anywhere.
NumbersWritten(text) ==
    NumbersWrittenFrom(text, {i \in 1..Len(text) :
                                i = 1 \/ text[i - 1] \notin Digits \cup {",", "."}})

\* C13: for a text with currency-prefixed numbers, extractAmount returns the
\* numerically largest of them as the text writes it, whatever its magnitude
\* and with or without thousands separators.
C13_LargestCurrencyAmount ==
    (call.fn = "extractAmount" /\ call.done /\ CurrencyNumbersWritten(call.arg) # {}) =>
        /\ call.ret \in CurrencyNumbersWritten(call.arg)
        /\ \A n \in CurrencyNumbersWritten(call.arg) : n <= call.ret

\* The lines of the text that contain "total", in any case.
TotalLines(text) ==
    LET lines == SplitLines(text)
    IN  {lines[i] : i \in {j \in 1..Len(lines) :
                              Includes(toLowerCase(lines[j]), <<"t","o","t","a","l">>)}}

\* C14: when the text has a line containing "total" with a number on it and
\* currency-prefixed amounts on other lines, extractAmount returns a number
\* of a "total" line.
C14_TotalLineFirst ==
    (/\ call.fn = "extractAmount" /\ call.done
     /\ \E line \in TotalLines(call.arg) : NumbersWritten(line) # {}
     /\ \E i \in 1..Len(SplitLines(call.arg)) :
            /\ SplitLines(call.arg)[i] \notin TotalLines(call.arg)
            /\ CurrencyNumbersWritten(SplitLines(call.arg)[i]) # {})
        => \E line \in TotalLines(call.arg) : call.ret \in NumbersWritten(line)

\* The well-known merchant names, in lower case.
WellKnownNames ==
    { <<"a","m","a","z","o","n">>, <<"w","a","l","m","a","r","t">>,
      <<"c","o","s","t","c","o">>, <<"t","a","r","g","e","t">>,
      <<"s","t","a","r","b","u","c","k","s">>,
      <<"m","c","d","o","n","a","l","d">>,
      <<"t","i","m"," ","h","o","r","t","o","n","s">>, <<"u","b","e","r">>,
      <<"l","y","f","t">>, <<"n","e","t","f","l","i","x">>,
      <<"s","p","o","t","i","f","y">>, <<"a","p","p","l","e">>,
      <<"g","o","o","g","l","e">>, <<"m","i","c","r","o","s","o","f","t">>,
      <<"p","a","y","p","a","l">> }

\* The known name the line is or begins with (followed by white space), as
\* the line writes it; <<>> for a line that does neither.
LeadingName(line) ==
    LET leading == {name \in WellKnownNames :
                        /\ Len(line) >= Len(name)
                        /\ toLowerCase(SubSeq(line, 1, Len(name))) = name
                        /\ Len(line) = Len(name) \/ line[Len(name) + 1] \in Spaces}
    IN  IF leading = {} THEN <<>>
        ELSE SubSeq(line, 1, Len(CHOOSE name \in leading : TRUE))

\* C15: extractMerchant returns a well-known merchant name only for a line
\* that is exactly that name or begins with it, the first such line in text
\* order deciding; a name in the middle of a line or inside a longer word
\* is no hit.
C15_KnownMerchantOnlyLeading ==
    (call.fn = "extractMerchant" /\ call.done) =>
        LET lines == SplitLines(call.arg)
            hits == {i \in 1..Len(lines) : LeadingName(lines[i]) # <<>>}
        IN  IF hits = {}
            THEN toLowerCase(call.ret) \notin WellKnownNames
            ELSE call.ret = LeadingName(lines[CHOOSE i \in hits : \A j \in hits : i <= j])

\* The administrative noise the candidate filter refuses.
AdministrativeNoise(line) ==
    \/ \E noise \in
            { <<"t","r","a","n","s","a","c","t","i","o","n">>,
              <<"d","e","t","a","i","l","s">>, <<"p","o","s","t","e","d">>,
              <<"c","a","r","d"," ","n","u","m","b","e","r">>,
              <<"c","a","t","e","g","o","r","y">>, <<"b","u","d","g","e","t">>,
              <<"n","o","t","e">>, <<"m","e","r","c","h","a","n","t">>,
              <<"w","e","b","s","i","t","e">>, <<"f","r","i">>, <<"m","o","n">>,
              <<"t","u","e">>, <<"w","e","d">>, <<"t","h","u">>, <<"s","a","t">>,
              <<"s","u","n">>, <<"8","6","6","-">>, <<"p","h","o","n","e">> } :
            Includes(toLowerCase(line), noise)
    \/ Len(line) >= 2 /\ line[1] = "$" /\ line[2] \in Digits
    \/ line[1] \in Digits
        /\ \A i \in 1..Len(line) : line[i] \in Digits \cup Spaces \cup {"/", "-", ".", ":", "*"}

\* The candidates among the lines, by their positions.
CandidatePositions(lines) ==
    {i \in 1..Len(lines) :
        /\ Len(lines[i]) > 2 /\ Len(lines[i]) < 50
        /\ \E q \in 1..Len(lines[i]) : lines[i][q] \in Letters
        /\ ~AdministrativeNoise(lines[i])}

NothingDetectable(text) ==
    /\ \A i \in 1..Len(text) : text[i] \notin Digits
    /\ \A name \in WellKnownNames : ~Includes(toLowerCase(text), name)
    /\ CandidatePositions(SplitLines(text)) = {}
    /\ \A keyword \in
            { <<"c","r","e","d","i","t","e","d">>, <<"r","e","f","u","n","d">>,
              <<"s","a","l","a","r","y">>, <<"p","a","y","r","o","l","l">>,
              <<"d","e","p","o","s","i","t">>, <<"b","o","n","u","s">>,
              <<"c","o","m","m","i","s","s","i","o","n">>,
              <<"d","i","v","i","d","e","n","d">>,
              <<"i","n","t","e","r","e","s","t">>,
              <<"p","a","y","m","e","n","t"," ","r","e","c","e","i","v","e","d">>,
              <<"t","r","a","n","s","f","e","r"," ","i","n">>,
              <<"i","n","c","o","m","e">>, <<"c","r","e","d","i","t">>,
              <<"r","e","c","e","i","v","e","d">> } :
            ~Includes(toLowerCase(text), keyword)

\* C17: for an OCR text with no detectable amount, date or merchant and no
\* credit keyword the legacy path produces the date of today, the amount 0,
\* the description 'Unknown Merchant', the type 'debit', the category
\* 'Uncategorized' and null notes.
C17_NothingDetectableDefaults ==
    (pi.path = "legacy" /\ NothingDetectable(pi.ocrText)) =>
        pi.structuredData =
            [date |-> JStr(today),
             type |-> JStr(<<"d","e","b","i","t">>),
             category |-> JStr(<<"U","n","c","a","t","e","g","o","r","i","z","e","d">>),
             description |-> JStr(<<"U","n","k","n","o","w","n"," ","M","e","r","c","h","a","n","t">>),
             amount |-> JNum(0),
             notes |-> JNull]

\* The legacy path was taken for a text of marks and a two-letter word.
C17_Witness ==
    /\ pi.path = "legacy"
    /\ pi.ocrText # <<>>
    /\ NothingDetectable(pi.ocrText)
    /\ pi.structuredData # NoData

\* C18: parseReceiptText returns, for every text, a record whose date has
\* the form YYYY-MM-DD, whose amount is a number >= 0, whose description is
\* not empty and whose type is 'debit' or 'credit'; the legacy mapping makes
\* a canonical transaction of it.
C18_ParserAlwaysAnswers ==
    (call.fn = "parseReceiptText" /\ call.done) =>
        /\ MatchesDateRegex(call.ret.date)
        /\ call.ret.amount \in Nat
        /\ call.ret.description # <<>>
        /\ call.ret.type \in {<<"d","e","b","i","t">>, <<"c","r","e","d","i","t">>}
        /\ IsCanonical(LegacyStructuredData(call.ret))

\* A text with a date in a month name and one the generic parsing refuses,
\* and nothing for a description: the date is decoded, the description is
\* the default.
C18_Witness ==
    /\ call.fn = "parseReceiptText" /\ call.done
    /\ call.arg = <<"F","r","i",","," ","S","e","p"," ","1","9",","," ","2","0","2","5","\n","1","9","/","0","9","/","2","0","2","5">>
    /\ call.ret.date = <<"2","0","2","5","-","0","9","-","1","9">>
    /\ call.ret.description = <<"U","n","k","n","o","w","n"," ","M","e","r","c","h","a","n","t">>

\* C20: when the OCR step yields no text (the provider fails or finds none),
\* process_image ends with a failure response at that step: the AI extractor
\* is not called, the legacy parser is not run and nothing is inserted.
C20_NoTextFailsAtOnce ==
    pi.ocr \in {"failed", "empty"} =>
        /\ pi.pc = "done"
        /\ piResp # NoResp /\ ~ResponseOk(piResp)
        /\ sg = SgIdle
        /\ pi.path = "none" /\ pi.legacyParsed = NoData /\ pi.structuredData = NoData
        /\ transactions = {}

\* The provider found no text and the caller has its failure.
C20_Witness ==
    /\ pi.ocr = "empty"
    /\ client.pc = "failed"
    /\ state.error = "Failed to process image"

\* The structure step has run twice on the same text and reply.
RanTwice == call.fn = "process_image" /\ call.done

\* C19 as stated: two runs of the orchestrator on the identical OCR text,
\* with the same reply of the backend, yield identical canonical
\* transactions, the date included even when it is the default of today.
C19_SameInputSameTransaction ==
    RanTwice => call.ret[1].data = call.ret[2].data

\* C19, amended: the two runs yield the same description, amount, type,
\* category and notes; they yield the same date when they happen on the same
\* processing day, and dates that differ are the processing day of each run.
C19_SameInputSameButForToday ==
    RanTwice =>
        LET first == call.ret[1]
            second == call.ret[2]
        IN  /\ first.day = second.day => first.data = second.data
            /\ (first.data = NoData) <=> (second.data = NoData)
            /\ first.data # NoData =>
                /\ [first.data EXCEPT !.date = second.data.date] = second.data
                /\ first.data.date # second.data.date =>
                    /\ first.data.date = JStr(first.day)
                    /\ second.data.date = JStr(second.day)

\* Two runs on a receipt without a date, midnight between them: each run
\* dates the transaction with its own day.
C19_Witness ==
    /\ RanTwice
    /\ call.ret[1].day # call.ret[2].day
    /\ call.ret[1].data # NoData
    /\ call.ret[1].data.date = JStr(call.ret[1].day)
    /\ call.ret[2].data.date = JStr(call.ret[2].day)

\* C21: a valid YYYY-MM-DD string that parseLocalDate reads and
\* getLocalDateString writes again comes back as the same string.
C21_DatePreserved ==
    call.fn = "parseLocalDate" /\ call.done => call.ret.result = call.arg

\* The day a YYYY-MM-DD string names, as a number that orders the days.
DayOrder(s) ==
    10000 * DigitsVal(SubSeq(s, 1, 4)) + 100 * DigitsVal(SubSeq(s, 6, 7))
        + DigitsVal(SubSeq(s, 9, 10))

\* C30: for every month the calendar is turned to, the two bounds of the
\* query are days of the calendar in YYYY-MM-DD form, and every one of the 42
\* cells of the month's grid lies between them.
C30_FetchBoundsCoverGrid ==
    call.fn = "fetchTransactions" /\ call.done =>
        /\ IsCalendarDate(call.ret.bounds.prevMonthStart)
        /\ IsCalendarDate(call.ret.bounds.nextMonthEnd)
        /\ Len(call.ret.monthGrid) = 42
        /\ \A i \in 1..Len(call.ret.monthGrid) :
              /\ DayOrder(call.ret.bounds.prevMonthStart) <= DayOrder(call.ret.monthGrid[i].dateStr)
              /\ DayOrder(call.ret.monthGrid[i].dateStr) <= DayOrder(call.ret.bounds.nextMonthEnd)

\* The path lies in the folder of the user: it is '<user id>/' and a rest.
InFolderOf(path, user) == \E n \in 1..Len(path) : SubSeq(path, 1, n) = user \o <<"/">>

\* The request carries the token of a user, a JSON body and a path that does
\* not lie in that user's folder.
ForeignPath(request) ==
    /\ request.method = "POST"
    /\ request.authorization.valid
    /\ request.body.json
    /\ Len(request.body.imagePath) > 0
    /\ ~InFolderOf(request.body.imagePath, request.authorization.user)

\* C22: process_image runs OCR and inserts only for a path in the folder of
\* the authenticated user, every row it inserts carries that user's id and
\* the requested path, signed_image_url signs only a path in that folder, and
\* a path outside the folder is answered 403 with no OCR, insert or URL.
C22_UserScoped ==
    /\ pi.ocr # "none" =>
          /\ req.authorization.valid
          /\ InFolderOf(req.body.imagePath, req.authorization.user)
    /\ \A t \in transactions :
          /\ req.authorization.valid
          /\ InFolderOf(req.body.imagePath, req.authorization.user)
          /\ t.row.user_id = req.authorization.user
          /\ t.row.image_path = req.body.imagePath
    /\ (pi.pc = "done" /\ pi.user # NoUser /\ ForeignPath(req)) =>
          /\ piResp.status = 403
          /\ pi.ocr = "none"
          /\ sg.pc = "idle"
          /\ transactions = {}
    /\ call.fn = "signed_image_url" =>
          /\ call.ret.signedUrl # <<>> =>
                /\ call.arg.authorization.valid
                /\ InFolderOf(call.arg.body.imagePath, call.arg.authorization.user)
                /\ call.ret.signedUrl = call.arg.body.imagePath
          /\ ForeignPath(call.arg) =>
                /\ call.ret.status = 403
                /\ call.ret.signedUrl = <<>>
                /\ "storage" \notin call.ret.calls

\* A path in the folder of a user whose id starts with the caller's id was
\* asked for by an authenticated caller and refused.
C22_Witness ==
    /\ pi.pc = "done"
    /\ pi.user = Str_u1
    /\ req.body.imagePath = SiblingImage
    /\ piResp.status = 403
    /\ transactions = {}

\* process_image, signed_image_url and answer_query call a service or return
\* data only for the token of a user, and answer 401 to any other token.
VerifiedElsewhere ==
    /\ (pi.ocr # "none" \/ pi.pc \in {"ocr", "structure", "insert"} \/ transactions # {}) =>
          req.authorization.valid
    /\ (pi.pc = "done" /\ req.method = "POST" /\ ~req.authorization.valid) =>
          /\ piResp.status = 401 \/ piResp.error = "Server configuration error"
          /\ pi.ocr = "none" /\ sg.pc = "idle" /\ transactions = {}
    /\ call.fn \in {"signed_image_url", "answer_query"} =>
          /\ (call.ret.calls \ {"auth"} # {}) => call.arg.authorization.valid
          /\ (call.arg.method = "POST" /\ ~call.arg.authorization.valid) =>
                call.ret.status = 401 /\ call.ret.calls \subseteq {"auth"}
    /\ call.fn = "signed_image_url" /\ call.ret.signedUrl # <<>> => call.arg.authorization.valid
    /\ call.fn = "answer_query" /\ call.ret.userId # NoUser => call.arg.authorization.valid

\* C23: each of the four edge functions calls an external service or returns
\* data only after the bearer token has been verified to belong to a user; a
\* missing or invalid token gets 401 and no such call.
C23_JwtAuthenticated ==
    /\ VerifiedElsewhere
    /\ sg.pc = "calling" => sg.authorization.valid
    /\ (sg.pc = "replied" /\ sg.method = "POST" /\ ~sg.authorization.valid /\ sg.resp.status # 503) =>
          sg.resp.status = 401

\* The lines of the text, in order, that contain "total", "amount" or
\* "balance" in any case and whose first number is above 0.
KeywordLines(text) ==
    LET Keyword(line) ==
            \E word \in {<<"t","o","t","a","l">>, <<"a","m","o","u","n","t">>,
                         <<"b","a","l","a","n","c","e">>} : Includes(toLowerCase(line), word)
        Counts(line) == Keyword(line) /\ extractNumberFromLine(line) > 0
    IN  SelectSeq(SplitLines(text), Counts)

\* The bare numbers of the text strictly between 0 and 100000, in hundredths.
ReasonableNumbers(text) ==
    {extractAllNumbers(text)[j] : j \in 1..Len(extractAllNumbers(text))} \cap 1..9999999

\* C24: with no positive currency-prefixed amount in the text, extractAmount
\* returns the first number of the first keyword line whose first number is
\* above 0; with no such line, the largest bare number strictly between 0
\* and 100000; with no such number, 0.
C24_StrategiesInOrder ==
    (call.fn = "extractAmount" /\ call.done /\ CurrencyAmounts(call.arg) = {}) =>
        IF KeywordLines(call.arg) # <<>>
        THEN call.ret = extractNumberFromLine(KeywordLines(call.arg)[1])
        ELSE IF ReasonableNumbers(call.arg) # {}
        THEN /\ call.ret \in ReasonableNumbers(call.arg)
             /\ \A n \in ReasonableNumbers(call.arg) : n <= call.ret
        ELSE call.ret = 0

\* A text whose "total" line counts 0 and whose other number is beyond
\* 100000: every strategy finds nothing and the amount is 0.
C24_Witness ==
    /\ call.fn = "extractAmount" /\ call.done
    /\ CurrencyAmounts(call.arg) = {}
    /\ KeywordLines(call.arg) = <<>>
    /\ \E j \in 1..Len(extractAllNumbers(call.arg)) : extractAllNumbers(call.arg)[j] >= 10000000
    /\ \E j \in 1..Len(SplitLines(call.arg)) :
          Includes(toLowerCase(SplitLines(call.arg)[j]), <<"t","o","t","a","l">>)
    /\ call.ret = 0

\* C28: a request of the OCR refresh, whose body says ocrOnly: true, inserts
\* no row into transactions.
C28_OcrOnlyInsertsNothing ==
    (req # NoReq /\ req.body.ocrOnly) => transactions = {}

\* C29: after a successful upload the page eventually navigates, once, to
\* the new transaction, and the countdown is null again.
C29_CountdownNavigates ==
    (client.pc = "succeeded")
        ~> (/\ client.result # NoData
            /\ client.navigations = <<client.result.id>>
            /\ client.countdown = NoData)

\* C25: within one request the structuring call is issued once at most (out
\* of the idle state, to which structure_with_gemini never returns), the
\* legacy parser runs once at most and only on a reply of
\* structure_with_gemini that is not ok, and one row at most is inserted.
C25_EachExtractorOnce ==
    [][/\ sg'.pc = "idle" => sg.pc = "idle"
       /\ (sg'.pc = "requested" /\ sg.pc # "requested") => sg.pc = "idle"
       /\ pi'.legacyParsed # pi.legacyParsed =>
             /\ pi.legacyParsed = NoData
             /\ pi.path = "none" /\ pi'.path = "legacy"
             /\ sg.pc = "replied" /\ ~ResponseOk(sg.resp)
       /\ pi'.path # pi.path => pi.path = "none"
       /\ transactions' # transactions =>
             /\ transactions = {}
             /\ Cardinality(transactions') = 1]_vars

\* The structuring call failed, the legacy parser ran and its row is stored.
C25_Witness ==
    /\ pi.pc = "done"
    /\ sg.pc = "replied" /\ ~ResponseOk(sg.resp)
    /\ pi.path = "legacy" /\ pi.legacyParsed # NoData
    /\ Cardinality(transactions) = 1

\* The fields of a canonical transaction that a row of the table carries.
FieldsOf(row) ==
    [date |-> row.date, type |-> row.type, category |-> row.category,
     description |-> row.description, amount |-> row.amount, notes |-> row.notes]

LegacyCategories ==
    {CategoryOrder[i] : i \in 1..Len(CategoryOrder)} \cup {<<"U","n","c","a","t","e","g","o","r","i","z","e","d">>}

\* C27: a transaction process_image is about to insert has the type
\* 'debit' or 'credit'; its category is one of the 13 lower-case values of
\* the AI schema on the AI path and one of the 10 legacy values on the
\* legacy path, as the path produced it.
C27_TypeAndCategoryVocabulary ==
    /\ Cardinality(cats) = 13 /\ \A c \in cats : toLowerCase(c) = c
    /\ Cardinality(LegacyCategories) = 10
    /\ pi.structuredData # NoData =>
          /\ pi.structuredData.type \in {JStr(<<"d","e","b","i","t">>), JStr(<<"c","r","e","d","i","t">>)}
          /\ pi.path = "ai" =>
                /\ pi.structuredData.category.k = "str"
                /\ pi.structuredData.category.v \in cats
                /\ pi.structuredData.category = AiRecord.category
          /\ pi.path = "legacy" =>
                /\ pi.structuredData.category.k = "str"
                /\ pi.structuredData.category.v \in LegacyCategories
    /\ \A t \in transactions :
          /\ t.row.type = pi.structuredData.type
          /\ t.row.category = pi.structuredData.category

\* The insert is about to run for a transaction of the legacy path in the
\* category Income, which differs from the AI schema's income.
C27_Witness ==
    /\ pi.pc = "insert"
    /\ pi.path = "legacy"
    /\ pi.structuredData.category = JStr(<<"I","n","c","o","m","e">>)
    /\ pi.structuredData.category.v \notin cats
    /\ pi.structuredData.type = JStr(<<"c","r","e","d","i","t">>)

====
